---------------------------- MODULE Spec2Model ----------------------------
(***************************************************************************)
(* Model of the Mastodon sentiment analytics job (manishghoshal99/CCC_A1). *)
(*                                                                         *)
(*   src/src/MastodonData.py   record decoder                              *)
(*   src/src/analysis.py       MastodonAnalyzer, analyze_mastodon_data     *)
(*   src/src/main.py, util.py  the hour/user job with root-side top-n      *)
(*   src/main.py, src/util.py  the earlier job with scatter + merge_list   *)
(*                                                                         *)
(* Python dicts keep insertion order, and heapq.nlargest / nsmallest break *)
(* ties by iteration order, so a dict is modelled as the sequence of its   *)
(* <<key, value>> items in insertion order.                                *)
(*                                                                         *)
(* Sentiments are Python floats.  A float is modelled as an integer count  *)
(* of Unit-ths (Unit = 2^MantBits), and an addition rounds its exact       *)
(* result to MantBits significant bits, ties to even, as IEEE-754 does     *)
(* with 53 bits: integer-valued sums below 2^MantBits are exact, sums      *)
(* with a small fractional part are rounded.                               *)
(***************************************************************************)
EXTENDS Integers, Sequences, FiniteSets, Bags, TLC

\* ------------------------------------------------------------------ bounds
MantBits == 5      \* significand width of the modelled float
MaxChunk == 3      \* longest chunk handed to analyze_chunk in SpecLine
MaxCount == 7      \* largest line count of SpecPartition
MaxRanks == 4      \* largest worker count of SpecPartition
MaxLines == 3      \* longest input file of Spec
MaxP == 4          \* largest worker count of Spec
ChunkSize == 2     \* the chunk_size of Spec (the -chunk argument)
MaxKeys == 3       \* most keys of the merged hour map of SpecTopK
MaxRunLines == 2     \* lines of the file a whole run reads
MaxRunP == 3         \* processes of a whole run
MaxSelect == 6       \* most hours and users of a file of SpecSelect
MaxReadN == 5        \* most lines of the file of SpecRead
MaxReadP == 3        \* most readers of SpecRead
MaxSub == 3          \* largest chunk_size of SpecRead
MaxList == 2         \* longest list given to merge_list in SpecList
MaxN == 3            \* largest n given to merge_list in SpecList
MaxPartial == 1    \* longest chunk behind a partial result of SpecMerge
top_n == 5         \* analysis.py:225

\* ------------------------------------------------------- float arithmetic
RECURSIVE Pow2(_)
Pow2(e) == IF e = 0 THEN 1 ELSE 2 * Pow2(e - 1)

Unit == Pow2(MantBits)

\* the float of an integer-valued JSON number
Num(i) == i * Unit

\* the float k * 2^-MantBits, a sentiment with a fractional part
Frac(k) == k

Abs(n) == IF n < 0 THEN -n ELSE n

\* the least e >= 0 with a < 2^(MantBits + e)
RECURSIVE Excess(_, _)
Excess(a, e) == IF a < Pow2(MantBits + e) THEN e ELSE Excess(a, e + 1)

\* round to MantBits significant bits, ties to even
FRound(n) ==
    LET a == Abs(n)
        q == Pow2(Excess(a, 0))
        m == a \div q
        rem == a - m * q
        up == \/ 2 * rem > q
              \/ 2 * rem = q /\ m % 2 = 1
        r == IF up THEN (m + 1) * q ELSE m * q
    IN IF n < 0 THEN -r ELSE r

FAdd(x, y) == FRound(x + y)

\* total / count for an integer count > 0: the quotient to the nearest
\* multiple of 2^-MantBits, then rounded as a float
FDiv(x, n) ==
    LET a == Abs(x)
        q == (2 * a + n) \div (2 * n)
    IN FRound(IF x < 0 THEN -q ELSE q)

\* ----------------------------------------------------- insertion-ordered dict
Keys(d) == {d[i][1] : i \in DOMAIN d}

Has(d, k) == k \in Keys(d)

Idx(d, k) == CHOOSE i \in DOMAIN d : d[i][1] = k

Get(d, k) == d[Idx(d, k)][2]

GetOr(d, k, dflt) == IF Has(d, k) THEN Get(d, k) ELSE dflt

\* d[k] = v: an existing key keeps its place, a new key goes last
Put(d, k, v) ==
    IF Has(d, k) THEN [d EXCEPT ![Idx(d, k)] = <<k, v>>] ELSE Append(d, <<k, v>>)

\* a dict as a mapping: Python's == on dicts ignores the order
AsMap(d) == {<<d[i][1], d[i][2]>> : i \in DOMAIN d}

\* ------------------------------------------------------------------ lines
\* One raw line of the input file.  json tells what json.loads makes of it;
\* the other fields are the values under the keys of the decoded object.
NoCreated == [tag |-> "absent", day |-> "", hh |-> 0, mm |-> 0]
EmptyCreated == [tag |-> "empty", day |-> "", hh |-> 0, mm |-> 0]
BadCreated == [tag |-> "text", day |-> "", hh |-> 0, mm |-> 0]
Iso(day, hh, mm) == [tag |-> "iso", day |-> day, hh |-> hh, mm |-> mm]

NoSentiment == [tag |-> "absent", val |-> 0]
NullSentiment == [tag |-> "null", val |-> 0]
TextSentiment == [tag |-> "text", val |-> 0]
Number(v) == [tag |-> "number", val |-> v]

NoAccount == [tag |-> "absent", id_tag |-> "absent", id |-> "", username |-> ""]
NullAccount == [tag |-> "null", id_tag |-> "absent", id |-> "", username |-> ""]
Account(id, username) ==
    [tag |-> "object", id_tag |-> "str", id |-> id, username |-> username]
ListIdAccount(username) ==
    [tag |-> "object", id_tag |-> "list", id |-> "", username |-> username]

NoLanguage == [tag |-> "absent", val |-> ""]
Language(s) == [tag |-> "str", val |-> s]
ListLanguage == [tag |-> "list", val |-> ""]

Object(c, s, a, l, reply, reblog, fav) ==
    [json |-> "object", created_at |-> c, sentiment |-> s, account |-> a,
     language |-> l, in_reply_to_id |-> reply, reblog |-> reblog,
     favourites_count |-> fav]

Post(c, s, a) == Object(c, s, a, NoLanguage, FALSE, FALSE, 0)

Raw(kind) == [Post(NoCreated, NoSentiment, NoAccount) EXCEPT !.json = kind]

BlankLine == Raw("blank")
InvalidJson == Raw("invalid")
NonObjectJson == Raw("nonobject")

\* ------------------------------------------------------------ MastodonData
\* MastodonData.__init__: raised is "ValueError" (json.loads failed),
\* "AttributeError" (.get on something that is no dict) or "" (decoded).
MastodonData(line) ==
    LET s == line.sentiment
        a == line.account
        base == [raised |-> "", created_at |-> NoCreated, sentiment |-> 0,
                 id_tag |-> "absent", user_id |-> "", username |-> ""]
    IN  IF line.json = "invalid" THEN [base EXCEPT !.raised = "ValueError"]
        ELSE IF line.json = "nonobject" THEN [base EXCEPT !.raised = "AttributeError"]
        ELSE IF a.tag = "null"
             THEN [base EXCEPT !.raised = "AttributeError"]
        ELSE [raised |-> "",
              created_at |-> line.created_at,
              sentiment |-> IF s.tag = "number" THEN s.val ELSE 0,
              id_tag |-> IF a.tag = "object" THEN a.id_tag ELSE "absent",
              user_id |-> IF a.tag = "object" THEN a.id ELSE "",
              username |-> IF a.tag = "object" THEN a.username ELSE ""]

\* `not mastodon_data.created_at`
CreatedFalsy(c) == c.tag \in {"absent", "empty"}

\* datetime.fromisoformat(...) succeeds
CreatedParses(c) == c.tag = "iso"

\* strftime("%Y-%m-%d %H") and strftime("%Y-%m-%d"): the minutes are dropped
HourKey(c) == <<c.day, c.hh>>
DayKey(c) == c.day

\* ------------------------------------------------------- MastodonAnalyzer
NewAnalyzer ==
    [hour_sentiment |-> <<>>, day_sentiment |-> <<>>, user_sentiment |-> <<>>,
     language_counts |-> <<>>, hourly_post_counts |-> <<>>,
     interaction_counts |-> <<>>, sentiment_values |-> <<>>]

\* a datetime block that leaves hourly_post_counts alone
AddHourDay_NoCount(an, d) ==
    IF CreatedParses(d.created_at)
    THEN LET hk == HourKey(d.created_at)
             dk == DayKey(d.created_at)
         IN [an EXCEPT
               !.hour_sentiment = Put(@, hk, FAdd(GetOr(@, hk, 0), d.sentiment)),
               !.day_sentiment = Put(@, dk, FAdd(GetOr(@, dk, 0), d.sentiment))]
    ELSE an

\* a datetime block that leaves day_sentiment alone
AddHourDay_NoDay(an, d) ==
    IF CreatedParses(d.created_at)
    THEN LET hk == HourKey(d.created_at)
         IN [an EXCEPT
               !.hour_sentiment = Put(@, hk, FAdd(GetOr(@, hk, 0), d.sentiment)),
               !.hourly_post_counts = Put(@, hk, GetOr(@, hk, 0) + 1)]
    ELSE an

\* lines 64-83: the datetime block
AddHourDay(an, d) ==
    IF CreatedParses(d.created_at)
    THEN LET hk == HourKey(d.created_at)
             dk == DayKey(d.created_at)
         IN [an EXCEPT
               !.hour_sentiment = Put(@, hk, FAdd(GetOr(@, hk, 0), d.sentiment)),
               !.day_sentiment = Put(@, dk, FAdd(GetOr(@, dk, 0), d.sentiment)),
               !.hourly_post_counts = Put(@, hk, GetOr(@, hk, 0) + 1)]
    ELSE an

\* `if mastodon_data.user_id:`
UserIdTruthy(d) == d.id_tag = "list" \/ (d.id_tag = "str" /\ d.user_id # "")

\* lines 85-99: the user block (the id is hashable)
\* a user block that never counts a second post of a user
AddUser_CountsOnce(an, d) ==
    LET us == an.user_sentiment
    IN IF Has(us, d.user_id)
       THEN LET old == Get(us, d.user_id)
            IN [an EXCEPT !.user_sentiment =
                  Put(us, d.user_id,
                      <<d.username, FAdd(old[2], d.sentiment), old[3]>>)]
       ELSE [an EXCEPT !.user_sentiment =
                  Put(us, d.user_id, <<d.username, d.sentiment, 1>>)]

AddUser(an, d) ==
    LET us == an.user_sentiment
    IN IF Has(us, d.user_id)
       THEN LET old == Get(us, d.user_id)
            IN [an EXCEPT !.user_sentiment =
                  Put(us, d.user_id,
                      <<d.username, FAdd(old[2], d.sentiment), old[3] + 1>>)]
       ELSE [an EXCEPT !.user_sentiment =
                  Put(us, d.user_id, <<d.username, d.sentiment, 1>>)]

Bump(d, k, by) == Put(d, k, GetOr(d, k, 0) + by)

\* lines 111-117: the interaction counters
AddInteractions(an, line) ==
    LET c1 == IF line.in_reply_to_id
              THEN Bump(an.interaction_counts, "replies", 1)
              ELSE an.interaction_counts
        c2 == IF line.reblog THEN Bump(c1, "reblogs", 1) ELSE c1
        c3 == IF line.favourites_count # 0
              THEN Bump(c2, "favorites", line.favourites_count) ELSE c2
    IN [an EXCEPT !.interaction_counts = c3]

\* lines 101-121: the additional extraction; a language that is a list is
\* unhashable, the TypeError leaves the try block before the interactions
AddExtras(an, line) ==
    IF line.language.tag = "list" THEN an
    ELSE AddInteractions(
           IF line.language.tag = "str" /\ line.language.val # ""
           THEN [an EXCEPT !.language_counts = Bump(@, line.language.val, 1)]
           ELSE an,
           line)

\* what a call of process_line leaves: the value returned, whether an
\* exception left the method, and the analyzer afterwards
Returned(ret, an) == [ret |-> ret, raised |-> FALSE, an |-> an]

\* process_line returning at an unparseable date, as the earlier
\* processing_data of src/util.py did
process_line_DateReturns(an, line) ==
    LET d == MastodonData(line)
    IN  IF line.json = "blank" \/ d.raised # "" \/ CreatedFalsy(d.created_at)
           \/ ~CreatedParses(d.created_at) \/ d.id_tag = "list"
        THEN Returned(FALSE, an)
        ELSE LET a2 == IF UserIdTruthy(d) THEN AddUser(AddHourDay(an, d), d)
                       ELSE AddHourDay(an, d)
             IN Returned(TRUE, [AddExtras(a2, line) EXCEPT
                                  !.sentiment_values = Append(@, d.sentiment)])

\* process_line without the required-field test of line 61
process_line_NoRequired(an, line) ==
    LET d == MastodonData(line)
        a1 == AddHourDay(an, d)
    IN  IF line.json = "blank" \/ d.raised # "" THEN Returned(FALSE, an)
        ELSE IF d.id_tag = "list" THEN Returned(FALSE, a1)
        ELSE LET a2 == IF UserIdTruthy(d) THEN AddUser(a1, d) ELSE a1
             IN Returned(TRUE, [AddExtras(a2, line) EXCEPT
                                  !.sentiment_values = Append(@, d.sentiment)])

\* process_line that lets the decoder's ValueError out
process_line_Reraises(an, line) ==
    LET d == MastodonData(line)
        a1 == AddHourDay(an, d)
    IN  IF line.json = "blank" THEN Returned(FALSE, an)
        ELSE IF d.raised # "" THEN [ret |-> FALSE, raised |-> TRUE, an |-> an]
        ELSE IF CreatedFalsy(d.created_at) THEN Returned(FALSE, an)
        ELSE IF d.id_tag = "list" THEN Returned(FALSE, a1)
        ELSE LET a2 == IF UserIdTruthy(d) THEN AddUser(a1, d) ELSE a1
             IN Returned(TRUE, [AddExtras(a2, line) EXCEPT
                                  !.sentiment_values = Append(@, d.sentiment)])

\* process_line skipping a record whose sentiment is no number, as if the
\* decoder had left it None
process_line_SkipsMissing(an, line) ==
    LET d == MastodonData(line)
        a1 == AddHourDay(an, d)
    IN  IF line.json = "blank" \/ d.raised # "" THEN Returned(FALSE, an)
        ELSE IF CreatedFalsy(d.created_at) \/ line.sentiment.tag # "number"
             THEN Returned(FALSE, an)
        ELSE IF d.id_tag = "list" THEN Returned(FALSE, a1)
        ELSE LET a2 == IF UserIdTruthy(d) THEN AddUser(a1, d) ELSE a1
             IN Returned(TRUE, [AddExtras(a2, line) EXCEPT
                                  !.sentiment_values = Append(@, d.sentiment)])

\* process_line, lines 52-130.  Every exception is caught by the outer
\* `except Exception` (False is returned, what was updated stays updated):
\*   - MastodonData raises on invalid JSON, on JSON that is no object and
\*     on an account that is no object;
\*   - `user_id in self.user_sentiment` raises TypeError on an id that is
\*     a list, after the hour and day sums were updated.
process_line(an, line) ==
    LET d == MastodonData(line)
        a1 == AddHourDay(an, d)
    IN  IF line.json = "blank" THEN Returned(FALSE, an)
        ELSE IF d.raised # "" THEN Returned(FALSE, an)
        ELSE IF CreatedFalsy(d.created_at) THEN Returned(FALSE, an)
        ELSE IF UserIdTruthy(d) /\ d.id_tag = "list" THEN Returned(FALSE, a1)
        ELSE LET a2 == IF UserIdTruthy(d) THEN AddUser(a1, d) ELSE a1
                 a3 == AddExtras(a2, line)
             IN Returned(TRUE,
                   [a3 EXCEPT !.sentiment_values = Append(@, d.sentiment)])

\* analyze_chunk, lines 309-313, as the analyzer it leaves
RECURSIVE analyze_chunk(_, _)
analyze_chunk(an, chunk) ==
    IF chunk = <<>> THEN an
    ELSE analyze_chunk(process_line(an, Head(chunk)).an, Tail(chunk))

\* lines 315-327: the items (hour, total / count) of the hours with a
\* count above 0, in the order of hour_sentiment
RECURSIVE HourlyAvg(_, _)
HourlyAvg(items, counts) ==
    IF items = <<>> THEN <<>>
    ELSE LET hour == Head(items)[1]
             total == Head(items)[2]
             count == GetOr(counts, hour, 0)
         IN (IF count > 0 THEN <<(<<hour, FDiv(total, count)>>)>> ELSE <<>>)
            \o HourlyAvg(Tail(items), counts)

get_hourly_sentiment_avg(an) == HourlyAvg(an.hour_sentiment, an.hourly_post_counts)

\* ------------------------------------------------- analyze_mastodon_data
\* lines 515-517: `next(f, None)` start_line times
SkipLines(f, k) == IF k >= Len(f) THEN <<>> ELSE SubSeq(f, k + 1, Len(f))

\* lines 523-535: the read loop over the rest f of the file, i the index of
\* enumerate, limit = end_line - start_line
RECURSIVE ReadLoop(_, _, _, _, _, _)
ReadLoop(an, f, i, limit, current_chunk, chunk_size) ==
    IF f = <<>> \/ i >= limit
    THEN IF current_chunk # <<>> THEN analyze_chunk(an, current_chunk) ELSE an
    ELSE LET chunk == Append(current_chunk, Head(f))
         IN IF Len(chunk) >= chunk_size
            THEN ReadLoop(analyze_chunk(an, chunk), Tail(f), i + 1, limit,
                          <<>>, chunk_size)
            ELSE ReadLoop(an, Tail(f), i + 1, limit, chunk, chunk_size)

\* lines 514-535: what a fresh analyzer holds after reading [start, end)
AnalyzeRange(f, start, end, chunk_size) ==
    ReadLoop(NewAnalyzer, SkipLines(f, start), 0, end - start, <<>>, chunk_size)

\* ------------------------------------------------------------ merge_results
\* `for proc_data in all_...: for k, v in proc_data.items()`: the items of
\* the gathered dicts, rank after rank
RECURSIVE ItemsOf(_)
ItemsOf(all) == IF all = <<>> THEN <<>> ELSE Head(all) \o ItemsOf(Tail(all))

\* lines 156-165: merged[key] += score on a defaultdict(float)
RECURSIVE AddScores(_, _)
AddScores(merged, items) ==
    IF items = <<>> THEN merged
    ELSE LET k == Head(items)[1]
             v == Head(items)[2]
         IN AddScores(Put(merged, k, FAdd(GetOr(merged, k, 0), v)), Tail(items))

\* lines 182-196: merged[key] += count on integers
RECURSIVE AddCounts(_, _)
AddCounts(merged, items) ==
    IF items = <<>> THEN merged
    ELSE AddCounts(Bump(merged, Head(items)[1], Head(items)[2]), Tail(items))

\* lines 168-179: the username of the item at hand is kept
\* a user merge that keeps the username it met first
RECURSIVE AddUsers_KeepsFirstName(_, _)
AddUsers_KeepsFirstName(merged, items) ==
    IF items = <<>> THEN merged
    ELSE LET id == Head(items)[1]
             u == Head(items)[2]
         IN AddUsers_KeepsFirstName(
              IF Has(merged, id)
              THEN Put(merged, id,
                       <<Get(merged, id)[1], FAdd(Get(merged, id)[2], u[2]),
                         Get(merged, id)[3] + u[3]>>)
              ELSE Put(merged, id, u),
              Tail(items))

RECURSIVE AddUsers(_, _)
AddUsers(merged, items) ==
    IF items = <<>> THEN merged
    ELSE LET id == Head(items)[1]
             u == Head(items)[2]
         IN AddUsers(
              IF Has(merged, id)
              THEN Put(merged, id,
                       <<u[1], FAdd(Get(merged, id)[2], u[2]), Get(merged, id)[3] + u[3]>>)
              ELSE Put(merged, id, u),
              Tail(items))

Field(all, f) == [i \in DOMAIN all |-> all[i][f]]

\* the scores of a key overwritten instead of summed
MergeScores_Overwrites(all) ==
    LET RECURSIVE Over(_, _)
        Over(merged, items) ==
            IF items = <<>> THEN merged
            ELSE Over(Put(merged, Head(items)[1], Head(items)[2]), Tail(items))
    IN Over(<<>>, ItemsOf(all))

MergeScores(all) == AddScores(<<>>, ItemsOf(all))

\* the gathered list walked from the last rank to the first
RECURSIVE Reversed(_)
Reversed(q) == IF q = <<>> THEN <<>> ELSE Append(Reversed(Tail(q)), Head(q))

Gathered_Reversed(parts) == Reversed(parts)

\* comm.gather(..., root=0): the contributions in rank order
Gathered(parts) == parts

\* lines 153-210 on the root: all is the gathered list, one analyzer state
\* per rank
MergeAll(parts) ==
    LET all == Gathered(parts)
    IN [hour_sentiment |-> MergeScores(Field(all, "hour_sentiment")),
        day_sentiment |-> MergeScores(Field(all, "day_sentiment")),
        user_sentiment |-> AddUsers(<<>>, ItemsOf(Field(all, "user_sentiment"))),
        language_counts |-> AddCounts(<<>>, ItemsOf(Field(all, "language_counts"))),
        hourly_post_counts |-> AddCounts(<<>>, ItemsOf(Field(all, "hourly_post_counts"))),
        interaction_counts |-> AddCounts(<<>>, ItemsOf(Field(all, "interaction_counts"))),
        sentiment_values |-> ItemsOf(Field(all, "sentiment_values"))]

\* ---------------------------------------------------- _get_analysis_results
Take(q, n) == SubSeq(q, 1, IF Len(q) < n THEN Len(q) ELSE n)

\* the key functions of the selections: lambda x: x[1] on an item
\* (key, value); lambda x: x[1][1] and lambda x: x[1][2] on an item
\* (user_id, (username, score, count))
ItemValue == "x[1]"
UserScore == "x[1][1]"
UserCount == "x[1][2]"

KeyOf(x, key) ==
    IF key = ItemValue THEN x[2]
    ELSE IF key = UserScore THEN x[2][2] ELSE x[2][3]

\* sorted(items, key=key, reverse=desc): a stable sort, items with equal
\* keys stay in the order of the input
Sorted(items, key, desc) ==
    LET n == Len(items)
        Before(j, i) ==
            \/ IF desc THEN KeyOf(items[j], key) > KeyOf(items[i], key)
                       ELSE KeyOf(items[j], key) < KeyOf(items[i], key)
            \/ KeyOf(items[j], key) = KeyOf(items[i], key) /\ j < i
        Pos(i) == 1 + Cardinality({j \in 1 .. n : Before(j, i)})
    IN [p \in 1 .. n |-> items[CHOOSE i \in 1 .. n : Pos(i) = p]]

\* a selection that sorts and does not cut
nlargest_NoCut(n, items, key) == Sorted(items, key, TRUE)

\* heapq.nlargest(n, items, key) == sorted(items, key, reverse=True)[:n]
nlargest(n, items, key) == Take(Sorted(items, key, TRUE), n)

\* heapq.nsmallest(n, items, key) == sorted(items, key)[:n]
nsmallest(n, items, key) == Take(Sorted(items, key, FALSE), n)

\* lines 225-297, without the statistics of numpy and the lists by average
\* sentiment (most_positive_users, most_negative_users)
get_analysis_results(an) ==
    [happiest_hours |-> nlargest(top_n, an.hour_sentiment, ItemValue),
     saddest_hours |-> nsmallest(top_n, an.hour_sentiment, ItemValue),
     happiest_days |-> nlargest(top_n, an.day_sentiment, ItemValue),
     saddest_days |-> nsmallest(top_n, an.day_sentiment, ItemValue),
     happiest_users |-> nlargest(top_n, an.user_sentiment, UserScore),
     saddest_users |-> nsmallest(top_n, an.user_sentiment, UserScore),
     most_active_users |-> nlargest(top_n, an.user_sentiment, UserCount),
     top_languages |-> nlargest(top_n, an.language_counts, ItemValue),
     busiest_hours |-> nlargest(top_n, an.hourly_post_counts, ItemValue),
     total_posts |-> Len(an.sentiment_values),
     interaction_stats |-> an.interaction_counts]

\* --------------------------------------------------------- format_results
\* lines 458-473: "YYYY-MM-DD HH:00 to YYYY-MM-DD HH+1:00"
format_hour_range(hour) == [from |-> hour, to |-> <<hour[1], hour[2] + 1>>]

FormatHours(list, name) ==
    [i \in DOMAIN list |->
        [hour |-> format_hour_range(list[i][1]), value |-> <<name, list[i][2]>>]]

FormatPlain(list, key, name) ==
    [i \in DOMAIN list |-> <<key, list[i][1], name, list[i][2]>>]

NoReport == [raised |-> "", made |-> FALSE]

\* lines 339-456.  The entries of the user lists read
\* results["user_sentiment"], a key _get_analysis_results never sets: with
\* one user in the results the comprehension of line 378 raises KeyError.
format_results(results) ==
    IF results.happiest_users # <<>>
    THEN [raised |-> "KeyError", made |-> FALSE]
    ELSE [raised |-> "", made |-> TRUE,
          happiest_hours |-> FormatHours(results.happiest_hours, "sentiment"),
          saddest_hours |-> FormatHours(results.saddest_hours, "sentiment"),
          happiest_days |-> FormatPlain(results.happiest_days, "day", "sentiment"),
          saddest_days |-> FormatPlain(results.saddest_days, "day", "sentiment"),
          happiest_users |-> <<>>, saddest_users |-> <<>>,
          most_active_users |-> <<>>,
          top_languages |-> FormatPlain(results.top_languages, "language", "posts"),
          busiest_hours |-> FormatHours(results.busiest_hours, "posts"),
          total_posts |-> results.total_posts,
          interaction_stats |-> results.interaction_stats]

\* ================================================================ state
VARIABLES
    lines,        \* analyze_chunk: the chunk it was called with
    self,         \* analyze_chunk: the analyzer
    at,           \* analyze_chunk: lines already taken from the chunk
    processed,    \* analyze_chunk: its counter
    call,         \* the last process_line call: line, ret, analyzer before
    chunk_pc      \* "loop", "returned" or "raised"

line_vars == <<lines, self, at, processed, call, chunk_pc>>

VARIABLES
    comm_size,    \* comm.Get_size()
    n_lines,      \* per rank: n_lines, None before the broadcast
    start_line,   \* per rank: start_line, None until computed
    end_line      \* per rank: end_line, None until computed

part_vars == <<comm_size, n_lines, start_line, end_line>>

VARIABLES
    file,         \* the lines of the input file
    pc,           \* per rank: where the rank is in analyze_mastodon_data
    analyzer,     \* per rank: its MastodonAnalyzer
    gathered,     \* per rank: what the rank has handed to comm.gather
    results,      \* the root's `results` of line 538
    report        \* what the root's analyze_mastodon_data returns

job_vars == <<file, pc, analyzer, gathered, results, report>>

VARIABLES
    readable,     \* whether open(data_path) succeeds
    calls,        \* per rank: the collectives it has invoked, in order
    ret,          \* per rank: what its analyze_mastodon_data returned
    selected,     \* the ranks that have run _get_analysis_results
    times,        \* per rank: whether it has handed `elapsed` to comm.gather
    returned      \* per rank: what parallel_analyze_mastodon_data returned

run_vars == <<readable, calls, ret, selected, times, returned>>

VARIABLES
    partial,      \* the partial results a, b and c that are merged
    merges        \* the merges made of them so far

merge_vars == <<partial, merges>>

VARIABLES
    reduced_hour_sentiment,   \* src/main.py: the merged hour map on the root
    reduced_user_sentiment,   \* src/main.py: the merged user map on the root
    ragged,        \* what numpy makes of the (id, (username, score)) items
    scattered,     \* per rank: the slices comm.scatter hands it
    local,         \* per rank: its four local top-n lists
    field,         \* which of the four reductions of lines 90-93 is running
    operands,      \* the lists the running reduction has still to combine
    reduced,       \* the four reduced lists on the root
    phase          \* where the selection of lines 71-93 is

topk_vars == <<reduced_hour_sentiment, reduced_user_sentiment, ragged,
               scattered, local, field, operands, reduced, phase>>

VARIABLES
    sub_chunk,    \* the chunk_size the readers are given
    reader        \* per rank: where its read of the file is, and what it
                  \* has handed to analyze_chunk

read_vars == <<sub_chunk, reader>>

alg_vars == <<merge_vars, topk_vars, read_vars>>

vars == <<line_vars, part_vars, job_vars, run_vars, alg_vars>>

\* Python's None where a number is expected
None == -1

Ranks == 0 .. (comm_size - 1)

LineIdle ==
    /\ lines = <<>>
    /\ self = NewAnalyzer
    /\ at = 0
    /\ processed = 0
    /\ call = [line |-> BlankLine, ret |-> FALSE, before |-> NewAnalyzer, made |-> FALSE]
    /\ chunk_pc = "idle"

PartIdle ==
    /\ comm_size = 1
    /\ n_lines = [r \in {0} |-> None]
    /\ start_line = [r \in {0} |-> None]
    /\ end_line = [r \in {0} |-> None]

NotSent == [sent |-> FALSE, data |-> NewAnalyzer]

NoResults == [made |-> FALSE]

MergeIdle == partial = <<>> /\ merges = <<>>

TopKIdle ==
    /\ reduced_hour_sentiment = <<>>
    /\ reduced_user_sentiment = <<>>
    /\ ragged = "object"
    /\ scattered = <<>>
    /\ local = <<>>
    /\ field = 0
    /\ operands = <<>>
    /\ reduced = <<>>
    /\ phase = "idle"

ReadIdle == sub_chunk = 1 /\ reader = <<>>

AlgIdle == MergeIdle /\ TopKIdle /\ ReadIdle

JobIdle ==
    /\ file = <<>>
    /\ pc = [r \in Ranks |-> "idle"]
    /\ analyzer = [r \in Ranks |-> NewAnalyzer]
    /\ gathered = [r \in Ranks |-> NotSent]
    /\ results = NoResults
    /\ report = NoReport

\* what a function has returned: nothing yet, or None, or a value
NotYet == "not yet"
PyNone == "None"

RunFresh ==
    /\ calls = [r \in Ranks |-> <<>>]
    /\ ret = [r \in Ranks |-> NotYet]
    /\ selected = {}
    /\ times = [r \in Ranks |-> FALSE]
    /\ returned = [r \in Ranks |-> NotYet]

RunIdle == readable = TRUE /\ RunFresh

\* ------------------------------------------------ partitioning (SpecPartition)
\* a rank with rank - 1 as its rank: every range starts one chunk early
ChunkRange_RankOffByOne(n, size, rank) ==
    LET lines_per_process == n \div size
        start == IF rank = 0 THEN 0 ELSE (rank - 1) * lines_per_process
    IN [start |-> start,
        end |-> IF rank < size - 1 THEN start + lines_per_process ELSE n]

\* analysis.py 509-511 (main.py 51-54): the range of one rank
ChunkRange(n, size, rank) ==
    LET lines_per_process == n \div size
        start == rank * lines_per_process
    IN [start |-> start,
        end |-> IF rank < size - 1 THEN start + lines_per_process ELSE n]

\* every rank holds the broadcast line count
PartitionInit ==
    /\ LineIdle
    /\ AlgIdle
    /\ comm_size \in 1 .. MaxRanks
    /\ \E n \in 0 .. MaxCount : n_lines = [r \in Ranks |-> n]
    /\ start_line = [r \in Ranks |-> None]
    /\ end_line = [r \in Ranks |-> None]
    /\ JobIdle
    /\ RunIdle

\* one rank computes its range
Partition(r) ==
    /\ start_line[r] = None
    /\ LET range == ChunkRange(n_lines[r], comm_size, r)
       IN /\ start_line' = [start_line EXCEPT ![r] = range.start]
          /\ end_line' = [end_line EXCEPT ![r] = range.end]
    /\ UNCHANGED <<alg_vars, line_vars, comm_size, n_lines, job_vars, run_vars>>

PartitionNext == \E r \in Ranks : Partition(r)

SpecPartition == PartitionInit /\ [][PartitionNext]_vars

\* ------------------------------------------------- analyze_chunk (SpecLine)
H14 == Iso("2023-03-15", 14, 5)
H14b == Iso("2023-03-15", 14, 45)
H09 == Iso("2023-03-15", 9, 0)
D16 == Iso("2023-03-16", 9, 30)
Alice == Account("u1", "alice")
Bob == Account("u2", "bob")

\* the lines a chunk of SpecLine is made of
ChunkLines ==
    { BlankLine, InvalidJson, NonObjectJson,
      Post(NoCreated, Number(Num(1)), Alice),
      Post(EmptyCreated, Number(Num(2)), Bob),
      Object(BadCreated, Number(Num(1)), Alice, Language("en"), TRUE, FALSE, 2),
      Post(H14, Number(Num(2)), Alice),
      Post(H14b, Number(Num(-1)), Account("u1", "al")),
      Post(H09, NoSentiment, Bob),
      Post(H14, NullSentiment, Alice),
      Object(D16, TextSentiment, Bob, Language("fr"), FALSE, TRUE, 0),
      Post(H14, Number(Num(1)), NullAccount),
      Post(H09, Number(Num(1)), ListIdAccount("carol")),
      Object(H14, Number(Frac(1)), NoAccount, ListLanguage, TRUE, TRUE, 1),
      Post(H09, Number(Num(5)), Account("", "ghost")) }

RECURSIVE SeqsUpTo(_, _)
SeqsUpTo(S, n) ==
    IF n = 0 THEN {<<>>}
    ELSE LET shorter == SeqsUpTo(S, n - 1)
         IN shorter \cup {Append(s, x) : s \in {t \in shorter : Len(t) = n - 1}, x \in S}

NoCall == [line |-> BlankLine, ret |-> FALSE, before |-> NewAnalyzer, made |-> FALSE]

LineInit ==
    /\ PartIdle
    /\ AlgIdle
    /\ JobIdle
    /\ RunIdle
    /\ lines \in SeqsUpTo(ChunkLines, MaxChunk)
    /\ self = NewAnalyzer
    /\ at = 0
    /\ processed = 0
    /\ call = NoCall
    /\ chunk_pc = "loop"

\* analysis.py 310-312: one turn of `for line in lines`
ChunkStep ==
    /\ chunk_pc = "loop"
    /\ at < Len(lines)
    /\ LET line == lines[at + 1]
           r == process_line(self, line)
       IN /\ call' = [line |-> line, ret |-> r.ret, before |-> self, made |-> TRUE]
          /\ self' = r.an
          /\ at' = at + 1
          /\ IF r.raised
             THEN /\ chunk_pc' = "raised"
                  /\ processed' = processed
             ELSE /\ chunk_pc' = "loop"
                  /\ processed' = IF r.ret THEN processed + 1 ELSE processed
    /\ UNCHANGED <<alg_vars, lines, part_vars, job_vars, run_vars>>

\* analysis.py 313: the loop is over, `return processed`
ChunkReturn ==
    /\ chunk_pc = "loop"
    /\ at = Len(lines)
    /\ chunk_pc' = "returned"
    /\ UNCHANGED <<alg_vars, lines, self, at, processed, call, part_vars, job_vars, run_vars>>

LineNext == ChunkStep \/ ChunkReturn

SpecLine == LineInit /\ [][LineNext]_vars

\* ------------------------------------------- the job of analysis.py (Spec)
\* the three lines of the example, a line with a fractional sentiment, a
\* line that ties with the first on every score, and a line of no JSON
Example1 == Post(H14, Number(Num(2)), Alice)
Example2 == Post(H14b, Number(Num(-1)), Alice)
Example3 == Post(H09, Number(Num(5)), Bob)
Fractional == Object(H14, Number(Frac(2)), Alice, Language("en"), TRUE, FALSE, 1)
Tying == Object(D16, Number(Num(2)), Bob, Language("fr"), TRUE, TRUE, 1)
Renamed == Post(H09, Number(Num(1)), Account("u1", "al"))

FileLines ==
    {Example1, Example2, Example3, Fractional, Tying, Renamed, InvalidJson}

Init ==
    /\ LineIdle
    /\ AlgIdle
    /\ file \in SeqsUpTo(FileLines, MaxLines)
    /\ comm_size \in 1 .. MaxP
    /\ n_lines = [r \in Ranks |-> None]
    /\ start_line = [r \in Ranks |-> None]
    /\ end_line = [r \in Ranks |-> None]
    /\ pc = [r \in Ranks |-> IF r = 0 THEN "count" ELSE "bcast"]
    /\ analyzer = [r \in Ranks |-> NewAnalyzer]
    /\ gathered = [r \in Ranks |-> NotSent]
    /\ results = NoResults
    /\ report = NoReport
    /\ RunIdle

\* lines 499-502: the root counts the lines of the file
Count ==
    /\ pc[0] = "count"
    /\ readable
    /\ n_lines' = [n_lines EXCEPT ![0] = Len(file)]
    /\ pc' = [pc EXCEPT ![0] = "bcast"]
    /\ UNCHANGED <<alg_vars, line_vars, comm_size, start_line, end_line, file, analyzer,
                   gathered, results, report, run_vars>>

\* lines 505-506: comm.bcast(n_lines, root=0); the root sends and goes on,
\* another rank waits for what the root has sent
Bcast(r) ==
    /\ pc[r] = "bcast"
    /\ r # 0 => calls[0] # <<>>
    /\ n_lines' = [n_lines EXCEPT ![r] = n_lines[0]]
    /\ calls' = [calls EXCEPT ![r] = Append(@, "bcast")]
    /\ pc' = [pc EXCEPT ![r] = "map"]
    /\ UNCHANGED <<alg_vars, line_vars, comm_size, start_line, end_line, file, analyzer,
                   gathered, results, report, readable, ret, selected, times, returned>>

\* lines 508-535: the rank computes its range and reads it chunk by chunk
Map(r) ==
    /\ pc[r] = "map"
    /\ LET range == ChunkRange(n_lines[r], comm_size, r)
       IN /\ start_line' = [start_line EXCEPT ![r] = range.start]
          /\ end_line' = [end_line EXCEPT ![r] = range.end]
          /\ analyzer' = [analyzer EXCEPT
                ![r] = AnalyzeRange(file, range.start, range.end, ChunkSize)]
    /\ pc' = [pc EXCEPT ![r] = "merge"]
    /\ UNCHANGED <<alg_vars, line_vars, comm_size, n_lines, file, gathered, results, report,
                   run_vars>>

\* lines 145-151: the seven gathers of merge_results, in the order of the code
MergeGathers ==
    <<"gather hour_sentiment", "gather day_sentiment", "gather user_sentiment",
      "gather language_counts", "gather hourly_post_counts",
      "gather interaction_counts", "gather sentiment_values">>

\* a merge_results that hands the rankings to every rank
merge_selects_EveryRank(rank, size) == TRUE

\* lines 140-142 and 213-216: whether merge_results runs
\* _get_analysis_results and returns its dictionary
merge_selects(rank, size) == size = 1 \/ rank = 0

\* lines 541-544: what analyze_mastodon_data returns on a rank whose
\* merge_results returned a dictionary (made) or None
analyze_return(rank, made) == IF rank = 0 /\ made THEN "formatted" ELSE PyNone

\* lines 578-615: what parallel_analyze_mastodon_data returns on a rank
driver_return(rank, res) == IF rank = 0 THEN res ELSE PyNone

\* the gathered list on the root: its own analyzer, then rank 1, rank 2, ...
Parts == [i \in 1 .. comm_size |->
            IF i = 1 THEN analyzer[0] ELSE gathered[i - 1].data]

\* lines 538-544 on a rank that is not the root: merge_results hands the
\* seven accumulators to the gathers and returns None
MergeSend(r) ==
    /\ r # 0
    /\ pc[r] = "merge"
    /\ gathered' = [gathered EXCEPT ![r] = [sent |-> TRUE, data |-> analyzer[r]]]
    /\ calls' = [calls EXCEPT ![r] = @ \o MergeGathers]
    /\ selected' = IF merge_selects(r, comm_size) THEN selected \cup {r} ELSE selected
    /\ ret' = [ret EXCEPT ![r] = analyze_return(r, merge_selects(r, comm_size))]
    /\ pc' = [pc EXCEPT ![r] = "done"]
    /\ UNCHANGED <<alg_vars, line_vars, part_vars, file, analyzer, results, report,
                   readable, times, returned>>

\* a root whose gathers return without waiting for the other ranks
MergeRoot_NoWait ==
    /\ pc[0] = "merge"
    /\ LET merged == IF comm_size = 1 THEN analyzer[0] ELSE MergeAll(Parts)
       IN /\ analyzer' = [analyzer EXCEPT ![0] = merged]
          /\ results' = [made |-> TRUE, value |-> get_analysis_results(merged)]
    /\ calls' = [calls EXCEPT ![0] = IF comm_size = 1 THEN @ ELSE @ \o MergeGathers]
    /\ selected' = selected \cup {0}
    /\ pc' = [pc EXCEPT ![0] = "format"]
    /\ UNCHANGED <<alg_vars, line_vars, part_vars, file, gathered, report,
                   readable, ret, times, returned>>

\* line 538 on the root: merge_results.  Alone (comm_size = 1) it returns
\* _get_analysis_results() at once; otherwise its gathers return when every
\* rank has contributed, and it merges, stores and ranks.
MergeRoot ==
    /\ pc[0] = "merge"
    /\ \A r \in Ranks \ {0} : gathered[r].sent
    /\ LET merged == IF comm_size = 1 THEN analyzer[0] ELSE MergeAll(Parts)
       IN /\ analyzer' = [analyzer EXCEPT ![0] = merged]
          /\ results' = [made |-> TRUE, value |-> get_analysis_results(merged)]
    /\ calls' = [calls EXCEPT ![0] = IF comm_size = 1 THEN @ ELSE @ \o MergeGathers]
    /\ selected' = selected \cup {0}
    /\ pc' = [pc EXCEPT ![0] = "format"]
    /\ UNCHANGED <<alg_vars, line_vars, part_vars, file, gathered, report,
                   readable, ret, times, returned>>

\* lines 541-542 on the root: format_results(results)
Format ==
    /\ pc[0] = "format"
    /\ report' = format_results(results.value)
    /\ pc' = [pc EXCEPT ![0] = IF report'.raised # "" THEN "raised" ELSE "done"]
    /\ ret' = [ret EXCEPT ![0] = IF report'.raised # "" THEN NotYet
                                  ELSE analyze_return(0, results.made)]
    /\ UNCHANGED <<alg_vars, line_vars, part_vars, file, analyzer, gathered, results,
                   readable, calls, selected, times, returned>>

Next ==
    \/ Count
    \/ \E r \in Ranks : Bcast(r)
    \/ \E r \in Ranks : Map(r)
    \/ \E r \in Ranks : MergeSend(r)
    \/ MergeRoot
    \/ Format

Spec == Init /\ [][Next]_vars

\* ------------------------------- the job on records of every kind (SpecAcc)
\* records the analyzer takes, records it drops before, in and after the
\* hour block, and a user who changes name
AccLines ==
    { Example1, Renamed, Tying, InvalidJson,
      Post(NoCreated, Number(Num(1)), Alice),
      Post(BadCreated, Number(Num(3)), Bob),
      Post(H09, Number(Num(1)), ListIdAccount("carol")),
      Post(H14b, Number(Frac(1)), NoAccount),
      Post(H14b, Number(Frac(3)), Account("u1", "ali")) }

AccInit ==
    /\ LineIdle
    /\ AlgIdle
    /\ file \in SeqsUpTo(AccLines, MaxLines)
    /\ comm_size \in 1 .. MaxP
    /\ n_lines = [r \in Ranks |-> None]
    /\ start_line = [r \in Ranks |-> None]
    /\ end_line = [r \in Ranks |-> None]
    /\ pc = [r \in Ranks |-> IF r = 0 THEN "count" ELSE "bcast"]
    /\ analyzer = [r \in Ranks |-> NewAnalyzer]
    /\ gathered = [r \in Ranks |-> NotSent]
    /\ results = NoResults
    /\ report = NoReport
    /\ RunIdle

SpecAcc == AccInit /\ [][Next]_vars

\* ------------------------------------- the read of the ranges (SpecRead)
\* lines 513-535 line by line, on line numbers in place of lines: what each
\* rank takes from the file and what it hands to analyze_chunk, for a file
\* of n_lines lines
\* a loop that goes one line past the end of the range
PastRange_OneLate(i, start, end) == i > end - start

\* line 524: `if i >= end_line - start_line: break`
PastRange(i, start, end) == i >= end - start

\* a flush that waits for one line more than chunk_size
ChunkFull_OneLate(chunk, chunk_size) == Len(chunk) > chunk_size

\* line 529: `if len(current_chunk) >= chunk_size`
ChunkFull(chunk, chunk_size) == Len(chunk) >= chunk_size

\* peak is the most lines current_chunk has held, flushed is the number of
\* calls of analyze_chunk
NewReader ==
    [at |-> "open", pos |-> 0, i |-> 0, current_chunk |-> <<>>, handed |-> <<>>,
     peak |-> 0, flushed |-> 0]

ReadInit ==
    /\ LineIdle
    /\ MergeIdle
    /\ TopKIdle
    /\ comm_size \in 1 .. MaxReadP
    /\ \E n \in 0 .. MaxReadN : n_lines = [r \in Ranks |-> n]
    /\ start_line = [r \in Ranks |-> ChunkRange(n_lines[r], comm_size, r).start]
    /\ end_line = [r \in Ranks |-> ChunkRange(n_lines[r], comm_size, r).end]
    /\ JobIdle
    /\ RunIdle
    /\ sub_chunk \in 1 .. MaxSub
    /\ reader = [r \in Ranks |-> NewReader]

\* lines 514-517: open, and next(f, None) start_line times; the file gives
\* no line past its last
SkipToStart(r) ==
    /\ reader[r].at = "open"
    /\ reader' = [reader EXCEPT ![r].at = "loop",
                                ![r].pos = IF start_line[r] < n_lines[r]
                                           THEN start_line[r] ELSE n_lines[r]]
    /\ UNCHANGED <<sub_chunk, merge_vars, topk_vars, line_vars, part_vars, job_vars,
                   run_vars>>

\* lines 523-531: one turn of `for i, line in enumerate(f)`: the file is at
\* its end, or the line taken is past the range, or it joins current_chunk,
\* which is handed to analyze_chunk when it holds chunk_size lines
ReadLine(r) ==
    /\ reader[r].at = "loop"
    /\ LET rd == reader[r]
           chunk == Append(rd.current_chunk, rd.pos)
       IN reader' = [reader EXCEPT ![r] =
            IF rd.pos >= n_lines[r] THEN [rd EXCEPT !.at = "rest"]
            ELSE IF PastRange(rd.i, start_line[r], end_line[r])
                 THEN [rd EXCEPT !.at = "rest", !.pos = @ + 1]
            ELSE IF ChunkFull(chunk, sub_chunk)
                 THEN [rd EXCEPT !.pos = @ + 1, !.i = @ + 1,
                                 !.handed = @ \o chunk, !.current_chunk = <<>>,
                                 !.peak = IF Len(chunk) > @ THEN Len(chunk) ELSE @,
                                 !.flushed = @ + 1]
            ELSE [rd EXCEPT !.pos = @ + 1, !.i = @ + 1, !.current_chunk = chunk,
                            !.peak = IF Len(chunk) > @ THEN Len(chunk) ELSE @]]
    /\ UNCHANGED <<sub_chunk, merge_vars, topk_vars, line_vars, part_vars, job_vars,
                   run_vars>>

\* lines 533-535: the lines left in current_chunk
ReadRest(r) ==
    /\ reader[r].at = "rest"
    /\ reader' = [reader EXCEPT ![r].at = "read",
                                ![r].handed = @ \o reader[r].current_chunk,
                                ![r].flushed = IF reader[r].current_chunk # <<>>
                                               THEN @ + 1 ELSE @,
                                ![r].current_chunk = <<>>]
    /\ UNCHANGED <<sub_chunk, merge_vars, topk_vars, line_vars, part_vars, job_vars,
                   run_vars>>

\* src/src/util.py 94-103, read_data_chunk(file_path, start, end) on a file
\* of n lines: the line numbers it yields
read_data_chunk(n, start, end) ==
    LET first == IF start < n THEN start ELSE n
        left == n - first
        count == IF end - start < left THEN end - start ELSE left
    IN [k \in 1 .. (IF count > 0 THEN count ELSE 0) |-> first + k - 1]

\* src/src/main.py 60-67: `for chunk_start in range(start_line, end_line,
\* max_chunk)`, every line of read_data_chunk(chunk_start, chunk_end) handed
\* on; max_chunk is 10000 in the code
RECURSIVE main_read(_, _, _, _)
main_read(n, chunk_start, end, max_chunk) ==
    IF chunk_start >= end THEN <<>>
    ELSE LET chunk_end == IF chunk_start + max_chunk < end
                          THEN chunk_start + max_chunk ELSE end
         IN read_data_chunk(n, chunk_start, chunk_end)
            \o main_read(n, chunk_start + max_chunk, end, max_chunk)

ReadNext ==
    \/ \E r \in Ranks : SkipToStart(r)
    \/ \E r \in Ranks : ReadLine(r)
    \/ \E r \in Ranks : ReadRest(r)

SpecRead == ReadInit /\ [][ReadNext]_vars

\* ------------------------------ the selection on many keys (SpecSelect)
\* analyze_mastodon_data alone (P = 1) on files whose records fall in
\* different hours and belong to different users, more of them than top_n
SelectScores == {Num(-1), Num(1), Num(2)}

SelectUsers == <<"u1", "u2", "u3", "u4", "u5", "u6", "u7", "u8">>

SelectLine(i, score) ==
    LET u == SelectUsers[((i - 1) % Len(SelectUsers)) + 1]
    IN Post(Iso("2023-03-15", i, 0), Number(score), Account(u, u))

SelectFiles ==
    UNION {{[i \in 1 .. n |-> SelectLine(i, sc[i])] : sc \in [1 .. n -> SelectScores]}
            : n \in 0 .. MaxSelect}

SelectInit ==
    /\ LineIdle
    /\ AlgIdle
    /\ file \in SelectFiles
    /\ comm_size = 1
    /\ n_lines = [r \in Ranks |-> None]
    /\ start_line = [r \in Ranks |-> None]
    /\ end_line = [r \in Ranks |-> None]
    /\ pc = [r \in Ranks |-> "count"]
    /\ analyzer = [r \in Ranks |-> NewAnalyzer]
    /\ gathered = [r \in Ranks |-> NotSent]
    /\ results = NoResults
    /\ report = NoReport
    /\ RunIdle

SelectNext == Count \/ Bcast(0) \/ Map(0) \/ MergeRoot \/ Format

SpecSelect == SelectInit /\ [][SelectNext]_vars

\* --------------------------- parallel_analyze_mastodon_data (SpecRun, FairRun)
\* the whole of the driver: analyze_mastodon_data as above, on a file that
\* may be missing, then the gather of the elapsed times and the root's output
RunLines == {Example1, Example3, InvalidJson}

RunInit ==
    /\ LineIdle
    /\ AlgIdle
    /\ readable \in BOOLEAN
    /\ file \in IF readable THEN SeqsUpTo(RunLines, MaxRunLines) ELSE {<<>>}
    /\ comm_size \in 1 .. MaxRunP
    /\ n_lines = [r \in Ranks |-> None]
    /\ start_line = [r \in Ranks |-> None]
    /\ end_line = [r \in Ranks |-> None]
    /\ pc = [r \in Ranks |-> IF r = 0 THEN "count" ELSE "bcast"]
    /\ analyzer = [r \in Ranks |-> NewAnalyzer]
    /\ gathered = [r \in Ranks |-> NotSent]
    /\ results = NoResults
    /\ report = NoReport
    /\ RunFresh

\* line 501 on the root: open(data_path) raises FileNotFoundError, which
\* nothing catches
CountFails ==
    /\ pc[0] = "count"
    /\ ~readable
    /\ pc' = [pc EXCEPT ![0] = "raised"]
    /\ UNCHANGED <<alg_vars, line_vars, part_vars, file, analyzer, gathered, results,
                   report, run_vars>>

\* line 575: comm.gather(elapsed, root=0); the root's gather returns when
\* every rank has contributed.  Lines 578 and 615 on another rank: it
\* returns None.
GatherTimes(r) ==
    /\ pc[r] = "done"
    /\ r = 0 => \A q \in Ranks \ {0} : times[q]
    /\ times' = [times EXCEPT ![r] = TRUE]
    /\ calls' = [calls EXCEPT ![r] = Append(@, "gather elapsed")]
    /\ returned' = IF r = 0 THEN returned
                   ELSE [returned EXCEPT ![r] = driver_return(r, ret[r])]
    /\ pc' = [pc EXCEPT ![r] = IF r = 0 THEN "output" ELSE "end"]
    /\ UNCHANGED <<alg_vars, line_vars, part_vars, file, analyzer, gathered, results,
                   report, readable, ret, selected>>

\* lines 578-613 on the root: the performance figures, the optional dump,
\* and the return of the results
Output ==
    /\ pc[0] = "output"
    /\ returned' = [returned EXCEPT ![0] = driver_return(0, ret[0])]
    /\ pc' = [pc EXCEPT ![0] = "end"]
    /\ UNCHANGED <<alg_vars, line_vars, part_vars, file, analyzer, gathered, results,
                   report, readable, calls, ret, selected, times>>

\* A rank has raised and its process is leaving.  Nothing in the code calls
\* MPI_Abort, so whether the other ranks are ended is left to the MPI
\* runtime: it may end them, and it may leave them where they wait.
RuntimeAbort ==
    /\ \E r \in Ranks : pc[r] = "raised"
    /\ \E r \in Ranks : pc[r] \notin {"raised", "end", "killed"}
    /\ pc' = [r \in Ranks |->
                IF pc[r] \in {"raised", "end"} THEN pc[r] ELSE "killed"]
    /\ UNCHANGED <<alg_vars, line_vars, part_vars, file, analyzer, gathered, results,
                   report, run_vars>>

RunNext ==
    \/ Count
    \/ CountFails
    \/ \E r \in Ranks : Bcast(r)
    \/ \E r \in Ranks : Map(r)
    \/ \E r \in Ranks : MergeSend(r)
    \/ MergeRoot
    \/ Format
    \/ \E r \in Ranks : GatherTimes(r)
    \/ Output
    \/ RuntimeAbort

SpecRun == RunInit /\ [][RunNext]_vars

\* when rank r's process can take a step of its own: the guards of Count
\* and CountFails, Bcast, Map, MergeSend and MergeRoot, Format, GatherTimes
\* and Output.  A rank that waits in a collective for the root (line 506)
\* or, being the root, for the others (lines 145-151, 575) cannot.
CanStep(r) ==
    \/ pc[r] \in {"count", "map", "format", "output"}
    \/ pc[r] = "bcast" /\ (r # 0 => calls[0] # <<>>)
    \/ pc[r] = "merge" /\ (r = 0 => \A q \in Ranks \ {0} : gathered[q].sent)
    \/ pc[r] = "done" /\ (r = 0 => \A q \in Ranks \ {0} : times[q])

PcValues ==
    {"bcast", "map", "merge", "format", "done", "output", "end", "raised"}

\* a step of rank r's process seen from outside: rank r, and only it, moves
\* on.  Within SpecRun such a step is one of the rank's actions above.
RankMoves(r) ==
    /\ r \in Ranks
    /\ CanStep(r)
    /\ \E p \in PcValues \ {pc[r]} : pc' = [pc EXCEPT ![r] = p]

\* The operating system runs every process, so a rank that can take a step
\* eventually takes it; the runtime's abort is under no such obligation.
FairRun == SpecRun /\ \A r \in 0 .. (MaxRunP - 1) : WF_pc(RankMoves(r))

\* ------------------------------------- the merge as an operation (SpecMerge)
\* lines 155-201 applied to two partial results: what the root holds after
\* merging the gathered list [x, y]
merge(x, y) == MergeAll(<<x, y>>)

MergeLines ==
    {Example1, Fractional, Tying,
     Post(H14b, Number(Num(-1)), Account("u1", "al"))}

\* the partial results: what an analyzer holds after a chunk
Partials ==
    {analyze_chunk(NewAnalyzer, ch) : ch \in SeqsUpTo(MergeLines, MaxPartial)}

NotMerged == [made |-> FALSE, value |-> NewAnalyzer]

MergeInit ==
    /\ LineIdle
    /\ PartIdle
    /\ JobIdle
    /\ RunIdle
    /\ TopKIdle
    /\ ReadIdle
    /\ partial \in [{"a", "b", "c"} -> Partials]
    /\ merges = [t \in {"ab", "ba", "bc", "ab_c", "a_bc"} |-> NotMerged]

\* merge(a, b), merge(b, a) or merge(b, c)
MergePair(t) ==
    /\ t \in {"ab", "ba", "bc"}
    /\ ~merges[t].made
    /\ LET x == IF t = "ab" THEN "a" ELSE "b"
           y == IF t = "ab" THEN "b" ELSE IF t = "ba" THEN "a" ELSE "c"
       IN merges' = [merges EXCEPT
              ![t] = [made |-> TRUE, value |-> merge(partial[x], partial[y])]]
    /\ UNCHANGED <<partial, topk_vars, read_vars, line_vars, part_vars, job_vars, run_vars>>

\* merge(merge(a, b), c) or merge(a, merge(b, c))
MergeThird(t) ==
    /\ t \in {"ab_c", "a_bc"}
    /\ ~merges[t].made
    /\ IF t = "ab_c"
       THEN /\ merges["ab"].made
            /\ merges' = [merges EXCEPT ![t] =
                  [made |-> TRUE, value |-> merge(merges["ab"].value, partial["c"])]]
       ELSE /\ merges["bc"].made
            /\ merges' = [merges EXCEPT ![t] =
                  [made |-> TRUE, value |-> merge(partial["a"], merges["bc"].value)]]
    /\ UNCHANGED <<partial, topk_vars, read_vars, line_vars, part_vars, job_vars, run_vars>>

MergeNext ==
    \/ \E t \in {"ab", "ba", "bc"} : MergePair(t)
    \/ \E t \in {"ab_c", "a_bc"} : MergeThird(t)

SpecMerge == MergeInit /\ [][MergeNext]_vars

\* --------------------- the two-phase selection of src/main.py (SpecTopK)
\* Lines 71-93 of src/main.py as a function of the merged hour and user
\* maps the root holds at line 70, the worker count and the order in which
\* comm.reduce combines the lists.  The maps are sequences of <<key, value>>
\* in insertion order; a user's value is <<username, score>>.  The scores
\* are single digits: np.array_split turns the hour items into an array of
\* strings, and on one digit the order of the strings is the order of the
\* numbers.  Line 57 (comm.reduce of two defaultdicts with operator.add,
\* which raises TypeError) comes before these lines and is no part of the
\* function modelled here.
HourOf(i) == <<"2023-03-15", i>>

Scores == {1, 2}

TopKUsers ==
    <<[id |-> "u1", username |-> "bob"], [id |-> "u2", username |-> "alice"],
      [id |-> "u3", username |-> "carol"]>>

\* the order of the usernames as strings
Names == <<"alice", "bob", "carol">>
NameRank(u) == CHOOSE i \in DOMAIN Names : Names[i] = u

HourMaps ==
    UNION {{[i \in 1 .. n |-> <<HourOf(i), sc[i]>>] : sc \in [1 .. n -> Scores]}
            : n \in 0 .. MaxKeys}

UserMaps ==
    UNION {{[i \in 1 .. n |-> <<TopKUsers[i].id, <<TopKUsers[i].username, sc[i]>>>>]
              : sc \in [1 .. n -> Scores]} : n \in 0 .. 2}

\* np.array_split(ary, sections): the first len % sections parts hold
\* len // sections + 1 items, the others len // sections
array_split(ary, sections) ==
    LET each == Len(ary) \div sections
        extras == Len(ary) % sections
        from(k) == (k - 1) * each + (IF k - 1 < extras THEN k - 1 ELSE extras)
    IN [k \in 1 .. sections |->
          SubSeq(ary, from(k) + 1, from(k + 1))]

\* Python's >= on the second components of two items: numbers for the
\* hours, (username, score) tuples for the users
PyGeq(v, w, kind) ==
    IF kind = "hours" THEN v >= w
    ELSE \/ NameRank(v[1]) > NameRank(w[1])
         \/ v[1] = w[1] /\ v[2] >= w[2]

\* a merge that takes from y whenever y has an item
RECURSIVE MergeLoop_YFirst(_, _, _, _, _)
MergeLoop_YFirst(out, x, y, n, kind) ==
    IF Len(out) < n /\ (x # <<>> \/ y # <<>>)
    THEN IF y # <<>>
         THEN MergeLoop_YFirst(Append(out, Head(y)), x, Tail(y), n, kind)
         ELSE MergeLoop_YFirst(Append(out, Head(x)), Tail(x), y, n, kind)
    ELSE out

\* src/util.py 124-134
RECURSIVE MergeLoop(_, _, _, _, _)
MergeLoop(out, x, y, n, kind) ==
    IF Len(out) < n /\ (x # <<>> \/ y # <<>>)
    THEN IF x # <<>> /\ (y = <<>> \/ PyGeq(x[1][2], y[1][2], kind))
         THEN MergeLoop(Append(out, Head(x)), Tail(x), y, n, kind)
         ELSE MergeLoop(Append(out, Head(y)), x, Tail(y), n, kind)
    ELSE out

merge_list(x, y, kind) == MergeLoop(<<>>, x, y, 5, kind)

\* the four reductions of lines 90-93, in the order the ranks enter them
Fields == <<"happiest_hours", "saddest_hours", "happiest_users", "saddest_users">>

KindOf(f) == IF f <= 2 THEN "hours" ELSE "users"

\* op of the reduction f applied to x (lower ranks) and y (higher ranks)
ReduceOp(f, x, y) ==
    IF f \in {1, 3} THEN merge_list(x, y, KindOf(f)) ELSE merge_list(y, x, KindOf(f))

\* lines 84-87
LocalLists(slices) ==
    <<nlargest(top_n, slices.hours, ItemValue),
      nsmallest(top_n, slices.hours, ItemValue),
      nlargest(top_n, slices.users, UserScore),
      nsmallest(top_n, slices.users, UserScore)>>

NoSlices == [made |-> FALSE, hours |-> <<>>, users |-> <<>>]
NoLists == [made |-> FALSE, lists |-> <<<<>>, <<>>, <<>>, <<>>>>]

TopKInit ==
    /\ LineIdle
    /\ MergeIdle
    /\ ReadIdle
    /\ comm_size \in 2 .. MaxP
    /\ n_lines = [r \in Ranks |-> None]
    /\ start_line = [r \in Ranks |-> None]
    /\ end_line = [r \in Ranks |-> None]
    /\ JobIdle
    /\ RunIdle
    /\ reduced_hour_sentiment \in HourMaps
    /\ reduced_user_sentiment \in UserMaps
    /\ ragged \in {"object", "ValueError"}
    /\ scattered = [r \in Ranks |-> NoSlices]
    /\ local = [r \in Ranks |-> NoLists]
    /\ field = 0
    /\ operands = <<>>
    /\ reduced = <<>>
    /\ phase = "split"

\* lines 71-74 and the root's side of 80-81.  The user items are ragged
\* (a string beside a tuple): numpy either raises ValueError on them or
\* builds an array of objects, depending on its version.
SplitScatter ==
    /\ phase = "split"
    /\ IF reduced_user_sentiment # <<>> /\ ragged = "ValueError"
       THEN phase' = "raised" /\ UNCHANGED scattered
       ELSE /\ phase' = "select"
            /\ scattered' = [r \in Ranks |->
                 [made |-> TRUE,
                  hours |-> array_split(reduced_hour_sentiment, comm_size)[r + 1],
                  users |-> array_split(reduced_user_sentiment, comm_size)[r + 1]]]
    /\ UNCHANGED <<reduced_hour_sentiment, reduced_user_sentiment, ragged, local,
                   field, operands, reduced, merge_vars, read_vars, line_vars, part_vars,
                   job_vars, run_vars>>

\* lines 84-87 on one rank; the reduction of line 90 has all its operands
\* once the last rank has its lists
LocalSelect(r) ==
    /\ phase = "select"
    /\ ~local[r].made
    /\ local' = [local EXCEPT ![r] = [made |-> TRUE, lists |-> LocalLists(scattered[r])]]
    /\ IF \A q \in Ranks : local'[q].made
       THEN /\ phase' = "reduce"
            /\ field' = 1
            /\ operands' = [i \in 1 .. comm_size |-> local'[i - 1].lists[1]]
       ELSE UNCHANGED <<phase, field, operands>>
    /\ UNCHANGED <<reduced_hour_sentiment, reduced_user_sentiment, ragged,
                   scattered, reduced, merge_vars, read_vars, line_vars, part_vars, job_vars, run_vars>>

\* one application of the op of the running reduction to two neighbouring
\* operands; the last one ends the reduction and the next one starts
ReduceStep(i) ==
    /\ phase = "reduce"
    /\ i \in 1 .. Len(operands) - 1
    /\ LET xy == ReduceOp(field, operands[i], operands[i + 1])
           rest == [k \in 1 .. Len(operands) - 1 |->
                      IF k < i THEN operands[k]
                      ELSE IF k = i THEN xy ELSE operands[k + 1]]
       IN IF Len(rest) > 1
          THEN operands' = rest /\ UNCHANGED <<field, reduced, phase>>
          ELSE /\ reduced' = Append(reduced, rest[1])
               /\ IF field = 4
                  THEN phase' = "done" /\ operands' = <<>> /\ UNCHANGED field
                  ELSE /\ field' = field + 1
                       /\ operands' = [k \in 1 .. comm_size |->
                                         local[k - 1].lists[field + 1]]
                       /\ UNCHANGED phase
    /\ UNCHANGED <<reduced_hour_sentiment, reduced_user_sentiment, ragged,
                   scattered, local, merge_vars, read_vars, line_vars, part_vars, job_vars, run_vars>>

TopKNext ==
    \/ SplitScatter
    \/ \E r \in Ranks : LocalSelect(r)
    \/ \E i \in 1 .. MaxP : ReduceStep(i)

SpecTopK == TopKInit /\ [][TopKNext]_vars

\* ------------------------------------- merge_list as an operation (SpecList)
\* heapq.merge(x, y, key=lambda item: -item[1]): the next item is the one
\* with the smaller key, x's when the keys are equal
RECURSIVE heapq_merge(_, _)
heapq_merge(x, y) ==
    IF x = <<>> THEN y
    ELSE IF y = <<>> THEN x
    ELSE IF (0 - x[1][2]) <= (0 - y[1][2])
         THEN <<Head(x)>> \o heapq_merge(Tail(x), y)
         ELSE <<Head(y)>> \o heapq_merge(x, Tail(y))

\* src/src/util.py 246-260: list(heapq.merge(...))[:n]
merge_list_heapq(x, y, n) == Take(heapq_merge(x, y), n)

ListScores == {1, 2, 3}

\* the lists of (key, score) items sorted by score in descending order, the
\* keys of list `name` its own
SortedLists(name) ==
    UNION {{[i \in 1 .. len |-> <<<<name, i>>, sc[i]>>] :
               sc \in {f \in [1 .. len -> ListScores] :
                          \A i \in 1 .. (len - 1) : f[i] >= f[i + 1]}}
            : len \in 0 .. MaxList}

NoList == [made |-> FALSE, loop |-> <<>>, heap |-> <<>>]

\* both merge_list on x and y: loop is src/util.py's, heap src/src/util.py's
BothMerges(x, y, n) ==
    [made |-> TRUE,
     loop |-> MergeLoop(<<>>, x.loop, y.loop, n, "hours"),
     heap |-> merge_list_heapq(x.heap, y.heap, n)]

Operand(list) == [made |-> TRUE, loop |-> list, heap |-> list]

ListInit ==
    /\ LineIdle
    /\ PartIdle
    /\ JobIdle
    /\ RunIdle
    /\ TopKIdle
    /\ ReadIdle
    /\ \E x \in SortedLists("a"), y \in SortedLists("b"), z \in SortedLists("c"),
          n \in 1 .. MaxN :
          partial = [a |-> x, b |-> y, c |-> z, n |-> n]
    /\ merges = [t \in {"ab", "bc", "ab_c", "a_bc"} |-> NoList]

\* merge_list(a, b, n), merge_list(b, c, n)
ListPair(t) ==
    /\ t \in {"ab", "bc"}
    /\ ~merges[t].made
    /\ LET x == IF t = "ab" THEN partial.a ELSE partial.b
           y == IF t = "ab" THEN partial.b ELSE partial.c
       IN merges' = [merges EXCEPT ![t] = BothMerges(Operand(x), Operand(y), partial.n)]
    /\ UNCHANGED <<partial, topk_vars, read_vars, line_vars, part_vars, job_vars, run_vars>>

\* merge_list(merge_list(a, b, n), c, n), merge_list(a, merge_list(b, c, n), n)
ListThird(t) ==
    /\ t \in {"ab_c", "a_bc"}
    /\ ~merges[t].made
    /\ IF t = "ab_c"
       THEN /\ merges["ab"].made
            /\ merges' = [merges EXCEPT
                  ![t] = BothMerges(merges["ab"], Operand(partial.c), partial.n)]
       ELSE /\ merges["bc"].made
            /\ merges' = [merges EXCEPT
                  ![t] = BothMerges(Operand(partial.a), merges["bc"], partial.n)]
    /\ UNCHANGED <<partial, topk_vars, read_vars, line_vars, part_vars, job_vars, run_vars>>

ListNext ==
    \/ \E t \in {"ab", "bc"} : ListPair(t)
    \/ \E t \in {"ab_c", "a_bc"} : ListThird(t)

SpecList == ListInit /\ [][ListNext]_vars

\* ================================================================ claims
\* --------------------------------------------------------- partition (C1)
Computed == {r \in Ranks : start_line[r] # None}

\* the ranks whose range holds line index i
Owners(i) == {r \in Computed : start_line[r] <= i /\ i < end_line[r]}

\* C1: for every N >= 0 and P >= 1 the ranges [start_r, end_r) of the ranks
\* partition [0, N): no range leaves [0, N), no index lies in two ranges,
\* and once every rank has its range every index lies in exactly one.
C1_RangesPartition ==
    LET n == n_lines[0]
    IN /\ \A r \in Computed :
            0 <= start_line[r] /\ start_line[r] <= end_line[r] /\ end_line[r] <= n
       /\ \A i \in 0 .. (n - 1) : Cardinality(Owners(i)) <= 1
       /\ Computed = Ranks => \A i \in 0 .. (n - 1) : Cardinality(Owners(i)) = 1

\* all ranges computed with fewer lines than workers, and with a remainder
C1_Witness ==
    /\ Computed = Ranks
    /\ comm_size = 3
    /\ n_lines[0] = 2
    /\ end_line[2] - start_line[2] = 2

\* ------------------------------------------- process_line, one call (C6-C9)
HasUser(l) ==
    l.json = "object" /\ l.account.tag = "object"
    /\ l.account.id_tag = "str" /\ l.account.id # ""

\* the sentiment the record carries once decoded
SentimentOf(l) == IF l.sentiment.tag = "number" THEN l.sentiment.val ELSE 0

\* the user's accumulator took this record in
UserFolded(before, after, l) ==
    LET id == l.account.id
        b == before.user_sentiment
        a == after.user_sentiment
    IN /\ Has(a, id)
       /\ Get(a, id)[1] = l.account.username
       /\ Get(a, id)[2] = IF Has(b, id) THEN FAdd(Get(b, id)[2], SentimentOf(l))
                           ELSE SentimentOf(l)
       /\ Get(a, id)[3] = (IF Has(b, id) THEN Get(b, id)[3] ELSE 0) + 1

HoursUntouched(before, after) ==
    /\ after.hour_sentiment = before.hour_sentiment
    /\ after.day_sentiment = before.day_sentiment
    /\ after.hourly_post_counts = before.hourly_post_counts

\* C6: a record with a non-empty user_id and a non-empty created_at that
\* does not parse is folded into the user's accumulator (sentiment added,
\* post_count + 1) and adds or changes no key of hour_sentiment,
\* day_sentiment or hourly_post_counts.
C6_UnparseableDateStillCountsUser ==
    (call.made /\ HasUser(call.line) /\ call.line.created_at.tag = "text")
    => /\ UserFolded(call.before, self, call.line)
       /\ HoursUntouched(call.before, self)

\* the case of C6 on an analyzer that already holds the user and an hour
C6_Witness ==
    /\ call.made /\ HasUser(call.line) /\ call.line.created_at.tag = "text"
    /\ Has(call.before.user_sentiment, call.line.account.id)
    /\ call.before.hour_sentiment # <<>>
    /\ self # call.before

GoodPost(l) ==
    /\ l.json = "object" /\ ~CreatedFalsy(l.created_at)
    /\ l.account.tag # "null" /\ l.account.id_tag # "list"

\* C8: on a line that is not valid JSON process_line returns False, raises
\* nothing and changes no accumulator; the loop goes on, so a later good
\* record of the chunk is processed and the chunk is read to its end.
C8_InvalidJsonIsDropped ==
    /\ (call.made /\ call.line.json = "invalid")
         => /\ call.ret = FALSE
            /\ self = call.before
            /\ chunk_pc # "raised"
            /\ (at < Len(lines) => chunk_pc = "loop")
    /\ (call.made /\ GoodPost(call.line)
         /\ \E i \in 1..(at - 1) : lines[i].json = "invalid")
         => /\ call.ret = TRUE
            /\ Len(self.sentiment_values) = Len(call.before.sentiment_values) + 1
    /\ chunk_pc = "returned" => at = Len(lines)

\* a good record processed after an invalid line, on a non-empty analyzer
C8_Witness ==
    /\ call.made /\ GoodPost(call.line) /\ call.ret
    /\ at = 3 /\ lines[2].json = "invalid"
    /\ call.before.sentiment_values # <<>>

MissingSentiment(l) ==
    l.json = "object" /\ l.sentiment.tag \in {"absent", "null", "text"}

\* C9: a record whose sentiment is absent, null or non-numeric is decoded
\* with sentiment 0 and aggregated like a record with sentiment 0: it is
\* returned True exactly when it would be with a number, and with a date
\* that parses and a user it adds 0 to the hour, day and user sums, one to
\* the hour's and the user's post counts and 0 to the sentiment list.
C9_MissingSentimentIsZero ==
    (call.made /\ MissingSentiment(call.line))
    => LET l == call.line
           zero == [l EXCEPT !.sentiment = Number(0)]
           hk == HourKey(l.created_at)
           dk == DayKey(l.created_at)
       IN /\ MastodonData(l) = MastodonData(zero)
          /\ GoodPost(l) => call.ret = TRUE
          /\ (GoodPost(l) /\ HasUser(l) /\ l.created_at.tag = "iso")
               => /\ Has(self.hour_sentiment, hk)
                  /\ Get(self.hour_sentiment, hk)
                       = GetOr(call.before.hour_sentiment, hk, 0)
                  /\ Get(self.day_sentiment, dk)
                       = GetOr(call.before.day_sentiment, dk, 0)
                  /\ Get(self.hourly_post_counts, hk)
                       = GetOr(call.before.hourly_post_counts, hk, 0) + 1
                  /\ UserFolded(call.before, self, l)
                  /\ self.sentiment_values
                       = Append(call.before.sentiment_values, 0)

\* such a record landing on an hour and a user that already have a sum
C9_Witness ==
    /\ call.made /\ MissingSentiment(call.line) /\ HasUser(call.line)
    /\ call.line.created_at.tag = "iso"
    /\ Has(call.before.hour_sentiment, HourKey(call.line.created_at))
    /\ Has(call.before.user_sentiment, call.line.account.id)
    /\ GetOr(call.before.hour_sentiment, HourKey(call.line.created_at), 0) # 0

\* ------------------------------------------------------- claims on the job
\* every sentiment of the stream is an integer
IntegerValued(f) ==
    \A i \in DOMAIN f : f[i].json = "object" => SentimentOf(f[i]) % Unit = 0

\* one analyzer processing the whole stream in a single pass
SinglePass(f) == analyze_chunk(NewAnalyzer, f)

\* the job run by a single process
SingleRun(f) == get_analysis_results(AnalyzeRange(f, 0, Len(f), ChunkSize))

UserSums(d) == {<<d[i][1], d[i][2][2]>> : i \in DOMAIN d}
UserPosts(d) == {<<d[i][1], d[i][2][3]>> : i \in DOMAIN d}

\* a key that two ranks other than the root both hold
SharedByRanks(f) ==
    \E r1, r2 \in Ranks \ {0} :
        /\ r1 < r2
        /\ Keys(gathered[r1].data[f]) \cap Keys(gathered[r2].data[f]) # {}

\* C2: for any stream and any P >= 1, once the root has merged, its
\* language, hourly-post, interaction and per-user post counts and the key
\* sets of its hour, day and user maps equal those of one analyzer reading
\* the whole stream in a single pass, and for integer-valued sentiments its
\* hour, day and user sums equal the single-pass sums exactly.
C2_MergedSumsEqualSinglePass ==
    results.made =>
        LET m == analyzer[0]
            s == SinglePass(file)
        IN /\ AsMap(m.language_counts) = AsMap(s.language_counts)
           /\ AsMap(m.hourly_post_counts) = AsMap(s.hourly_post_counts)
           /\ AsMap(m.interaction_counts) = AsMap(s.interaction_counts)
           /\ UserPosts(m.user_sentiment) = UserPosts(s.user_sentiment)
           /\ Keys(m.hour_sentiment) = Keys(s.hour_sentiment)
           /\ Keys(m.day_sentiment) = Keys(s.day_sentiment)
           /\ IntegerValued(file) =>
                 /\ AsMap(m.hour_sentiment) = AsMap(s.hour_sentiment)
                 /\ AsMap(m.day_sentiment) = AsMap(s.day_sentiment)
                 /\ UserSums(m.user_sentiment) = UserSums(s.user_sentiment)

\* the root has merged the accumulators of three ranks, two of which held
\* the same hour and the same user, for an integer-valued stream
C2_Witness ==
    /\ results.made
    /\ comm_size = 3
    /\ IntegerValued(file)
    /\ SharedByRanks("hour_sentiment")
    /\ SharedByRanks("user_sentiment")

\* the ranked lists of a result
RankedLists(res) ==
    <<res.happiest_hours, res.saddest_hours, res.happiest_days,
      res.saddest_days, res.happiest_users, res.saddest_users,
      res.most_active_users, res.top_languages, res.busiest_hours>>

\* the maps the lists are taken from, in their insertion order
RankedMaps(an) ==
    <<an.hour_sentiment, an.day_sentiment, an.user_sentiment,
      an.language_counts, an.hourly_post_counts>>

\* C3 as stated: for any stream the ranked lists of the root with P > 1 are
\* identical, element by element, to those of a single-process run.
C3_ListsIdenticalForAnyStream ==
    (results.made /\ comm_size > 1) =>
        RankedLists(results.value) = RankedLists(SingleRun(file))

\* C3: for a stream of integer-valued sentiments (sums that are exact in
\* every order) the ranked lists of the root with P > 1 are identical,
\* element by element and in the order among keys of equal score, to those
\* of a single-process run, and so are the maps they are taken from, in
\* their insertion order.
C3_ListsIdenticalForExactSums ==
    (results.made /\ comm_size > 1 /\ IntegerValued(file)) =>
        /\ RankedLists(results.value) = RankedLists(SingleRun(file))
        /\ RankedMaps(analyzer[0]) = RankedMaps(SinglePass(file))

\* an integer-valued stream whose two happiest hours tie and were read by
\* different ranks, the second of them by rank 1 and not the first
C3_Witness ==
    /\ results.made
    /\ comm_size > 1
    /\ IntegerValued(file)
    /\ LET top == results.value.happiest_hours
           one == gathered[1].data.hour_sentiment
       IN /\ Len(top) >= 2
          /\ top[1][2] = top[2][2]
          /\ Has(one, top[2][1])
          /\ ~Has(one, top[1][1])

\* the three lines of the example
ExampleFile == <<Example1, Example2, Example3>>

\* C10: for the example, with P = 1 and with P = 4, the root holds
\* hour[2023-03-15 14] = 1, hour[2023-03-15 09] = 5, u1 = (alice, 1, 2
\* posts), u2 = (bob, 5, 1 post); the happiest hour is 2023-03-15 09, the
\* happiest user is bob, and the results are those of the single-process run.
C10_ExampleResults ==
    (file = ExampleFile /\ comm_size \in {1, 4} /\ results.made) =>
        LET an == analyzer[0]
            res == results.value
        IN /\ AsMap(an.hour_sentiment) =
                 {<<HourKey(H14), Num(1)>>, <<HourKey(H09), Num(5)>>}
           /\ AsMap(an.user_sentiment) =
                 {<<"u1", <<"alice", Num(1), 2>>>>, <<"u2", <<"bob", Num(5), 1>>>>}
           /\ res.happiest_hours[1] = <<HourKey(H09), Num(5)>>
           /\ res.happiest_users[1] = <<"u2", <<"bob", Num(5), 1>>>>
           /\ res = SingleRun(ExampleFile)

\* the root of four ranks has its results for the example
C10_Witness ==
    /\ file = ExampleFile
    /\ comm_size = 4
    /\ results.made
    /\ Len(results.value.happiest_hours) = 2

\* ----------------------------------------------------- claims on the merge
BagOf(q) ==
    [v \in {q[i] : i \in DOMAIN q} |-> Cardinality({i \in DOMAIN q : q[i] = v})]

\* the user map without the usernames
UserTotals(d) == {<<d[i][1], d[i][2][2], d[i][2][3]>> : i \in DOMAIN d}

\* two results agree on every field but the usernames
SameButNames(x, y) ==
    /\ AsMap(x.hour_sentiment) = AsMap(y.hour_sentiment)
    /\ AsMap(x.day_sentiment) = AsMap(y.day_sentiment)
    /\ UserTotals(x.user_sentiment) = UserTotals(y.user_sentiment)
    /\ AsMap(x.language_counts) = AsMap(y.language_counts)
    /\ AsMap(x.hourly_post_counts) = AsMap(y.hourly_post_counts)
    /\ AsMap(x.interaction_counts) = AsMap(y.interaction_counts)
    /\ BagOf(x.sentiment_values) = BagOf(y.sentiment_values)

\* two results agree on every field
SameResult(x, y) ==
    /\ SameButNames(x, y)
    /\ AsMap(x.user_sentiment) = AsMap(y.user_sentiment)

\* every sum of the partial result is an integer
ExactPartial(x) ==
    /\ \A i \in DOMAIN x.hour_sentiment : x.hour_sentiment[i][2] % Unit = 0
    /\ \A i \in DOMAIN x.day_sentiment : x.day_sentiment[i][2] % Unit = 0
    /\ \A i \in DOMAIN x.user_sentiment : x.user_sentiment[i][2][2] % Unit = 0

\* C4 as stated: merge(merge(a,b),c) = merge(a,merge(b,c)) and
\* merge(a,b) = merge(b,a) on every field, for all partial results.
C4_MergeAssociativeCommutative ==
    /\ (merges["ab"].made /\ merges["ba"].made) =>
          SameResult(merges["ab"].value, merges["ba"].value)
    /\ (merges["ab_c"].made /\ merges["a_bc"].made) =>
          SameResult(merges["ab_c"].value, merges["a_bc"].value)

\* C4: merge(a,b) and merge(b,a) agree on every field but the username of
\* a user both operands hold, which is the one of the right-hand operand;
\* and for partial results whose sums are integers,
\* merge(merge(a,b),c) = merge(a,merge(b,c)) on every field.
C4_MergeAlgebraUpToNamesAndRounding ==
    /\ (merges["ab"].made /\ merges["ba"].made) =>
          /\ SameButNames(merges["ab"].value, merges["ba"].value)
          /\ \A id \in Keys(partial["a"].user_sentiment)
                        \cap Keys(partial["b"].user_sentiment) :
                /\ Get(merges["ab"].value.user_sentiment, id)[1]
                      = Get(partial["b"].user_sentiment, id)[1]
                /\ Get(merges["ba"].value.user_sentiment, id)[1]
                      = Get(partial["a"].user_sentiment, id)[1]
    /\ (merges["ab_c"].made /\ merges["a_bc"].made
          /\ \A n \in {"a", "b", "c"} : ExactPartial(partial[n])) =>
          SameResult(merges["ab_c"].value, merges["a_bc"].value)

\* all five merges are made of three partial results with integer sums
\* that hold the same user, a and b under different usernames
C4_Witness ==
    /\ \A t \in {"ab", "ba", "ab_c", "a_bc"} : merges[t].made
    /\ \A n \in {"a", "b", "c"} :
          ExactPartial(partial[n]) /\ Has(partial[n].user_sentiment, "u1")
    /\ Get(partial["a"].user_sentiment, "u1")[1]
          # Get(partial["b"].user_sentiment, "u1")[1]

\* ------------------------------------- claims on the two-phase selection
\* the lists taken directly from the merged maps (lines 97-100)
Centralized ==
    <<nlargest(top_n, reduced_hour_sentiment, ItemValue),
      nsmallest(top_n, reduced_hour_sentiment, ItemValue),
      nlargest(top_n, reduced_user_sentiment, UserScore),
      nsmallest(top_n, reduced_user_sentiment, UserScore)>>

\* C5: with P > 1, for every reduction order, the reduced happiest and
\* saddest lists of hours and of users equal the top-K and bottom-K taken
\* directly from the merged hour and user maps.
C5_TwoPhaseEqualsCentralized ==
    phase = "done" => reduced = Centralized

\* ---------------------------------------------------- claims on the whole run
\* the collectives of one run, in the order of the code: line 506, lines
\* 145-151, line 575
AllCollectives == <<"bcast">> \o MergeGathers \o <<"gather elapsed">>

IsPrefix(s, t) == Len(s) <= Len(t) /\ SubSeq(t, 1, Len(s)) = s

\* a rank whose process has left parallel_analyze_mastodon_data, by a
\* return or by an exception
Left(r) == pc[r] \in {"end", "raised"}

\* C11: on a readable file every rank invokes the same collectives in the
\* same order, each once: the bcast, the seven gathers of merge_results, the
\* gather of the elapsed times; a rank that has left has invoked them all.
C11_SameCollectivesOnEveryRank ==
    readable =>
        \A r \in Ranks :
            /\ IsPrefix(calls[r], AllCollectives)
            /\ Left(r) => calls[r] = AllCollectives

\* the run is over with a full report: every rank has returned, and the
\* root has returned the formatted results
EndedWithReport ==
    /\ \A r \in Ranks : pc[r] = "end"
    /\ report.made
    /\ returned[0] = "formatted"

\* C12: on a readable file, for any P >= 1, every rank eventually returns
\* and the root ends with a complete formatted report.
C12_EveryRunEndsWithReport == readable => <>EndedWithReport

\* rank r has finished its MAP: it has read its range to the end (line 535)
Mapped(r) == end_line[r] # None

\* rank r has entered the first gather of merge_results (line 145)
InGather(r) == \E i \in 1 .. Len(calls[r]) : calls[r][i] = MergeGathers[1]

\* C13 as stated: no rank enters its first gather before every rank has
\* finished its MAP.
C13_NoGatherBeforeEveryMapEnds ==
    readable => \A r, q \in Ranks : InGather(r) => Mapped(q)

\* C13: a rank enters its first gather only after its own MAP, and the
\* root's gathers return, and with them the merge starts, only after every
\* rank has finished its MAP.
C13_RootGathersAfterEveryMapEnds ==
    readable =>
        /\ \A r \in Ranks : InGather(r) => Mapped(r)
        /\ (InGather(0) \/ results.made) => \A q \in Ranks : Mapped(q)

\* the root of a run of several ranks has its gathers behind it
C13_Witness == readable /\ comm_size > 1 /\ InGather(0) /\ results.made

\* C14: only the root runs the selection and returns a report; every other
\* rank returns None from analyze_mastodon_data and from the driver; and the
\* root selects only when it holds what each of the P ranks has accumulated.
C14_OnlyRootSelectsAndReports ==
    /\ selected \subseteq {0}
    /\ \A r \in Ranks \ {0} :
          ret[r] \in {NotYet, PyNone} /\ returned[r] \in {NotYet, PyNone}
    /\ (report.made \/ returned[0] = "formatted") => results.made
    /\ results.made =>
          /\ 0 \in selected
          /\ \A q \in Ranks \ {0} :
                Mapped(q) /\ gathered[q].sent /\ gathered[q].data = analyzer[q]

\* a run of several ranks is over: the root has returned the report, the
\* others None
C14_Witness ==
    /\ comm_size > 1
    /\ \A r \in Ranks : pc[r] = "end"
    /\ returned[0] = "formatted"
    /\ \A r \in Ranks \ {0} : ret[r] = PyNone /\ returned[r] = PyNone

\* nothing of the job has happened: no rank has entered its MAP, and there
\* is no result and no report
NothingDone ==
    /\ \A r \in Ranks : pc[r] \notin {"map", "merge", "format", "done", "output", "end"}
    /\ \A r \in Ranks : ~Mapped(r) /\ returned[r] = NotYet
    /\ ~results.made /\ ~report.made

\* every rank's process is over: it raised, or the runtime ended it
GroupAborted == \A r \in Ranks : pc[r] \in {"raised", "killed"}

\* C15: when the file cannot be opened, the root's error ends the whole
\* group: no rank enters MAP, there is no report, and no rank stays blocked
\* in the bcast of N forever.
C15_MissingFileAbortsGroup == ~readable => ([]NothingDone /\ <>GroupAborted)

\* ------------------------------------------------- claims on the selections
\* the order of the key strings: the days of the model in the order of their
\* text, and "%Y-%m-%d %H:00" keys by day, then by the two-digit hour
Days == <<"2023-03-15", "2023-03-16">>
DayRank(d) == CHOOSE i \in DOMAIN Days : Days[i] = d
HourKeyLeq(j, k) ==
    \/ DayRank(j[1]) < DayRank(k[1])
    \/ j[1] = k[1] /\ j[2] <= k[2]

\* entries of an hour list that have equal scores are in ascending key order
TiesByKey(list) ==
    \A i, j \in 1 .. Len(list) :
        (i < j /\ list[i][2] = list[j][2]) => HourKeyLeq(list[i][1], list[j][1])

\* C16: entries with equal scores are ordered by the key string, ascending,
\* whatever the order in which the keys were inserted.
C16_TiesOrderedByKeyString ==
    results.made =>
        /\ TiesByKey(results.value.happiest_hours)
        /\ TiesByKey(results.value.saddest_hours)

\* ---------------------------------------------- claims on the extra fields
\* the line is a JSON object that MastodonData has decoded
Decoded(l) == l.json = "object" /\ MastodonData(l).raised = ""

\* the call has added the record's sentiment value to the list
SentimentRecorded ==
    self.sentiment_values =
        Append(call.before.sentiment_values, MastodonData(call.line).sentiment)

\* the call has counted the record's interactions
InteractionsCounted ==
    self.interaction_counts = AddInteractions(call.before, call.line).interaction_counts

\* the call has counted the record's language, if it names one
LanguageCounted ==
    (call.line.language.tag = "str" /\ call.line.language.val # "")
    => self.language_counts =
          Bump(call.before.language_counts, call.line.language.val, 1)

\* C17: for a decoded record the language count, the interaction counts and
\* the sentiment-value list are each updated, whatever its timestamp, its
\* user and its other extra fields are.
C17_ExtrasUpdatedIndependently ==
    (call.made /\ Decoded(call.line))
    => LanguageCounted /\ InteractionsCounted /\ SentimentRecorded

\* the line is valid JSON, an object, whose account is null
NullAccountRecord(l) == l.json = "object" /\ l.account.tag = "null"

\* the hour and day sums took the record's sentiment in
HoursFolded(before, after, l) ==
    LET hk == HourKey(l.created_at)
        dk == DayKey(l.created_at)
    IN /\ Has(after.hour_sentiment, hk)
       /\ Get(after.hour_sentiment, hk) =
             FAdd(GetOr(before.hour_sentiment, hk, 0), SentimentOf(l))
       /\ Has(after.day_sentiment, dk)
       /\ Get(after.day_sentiment, dk) =
             FAdd(GetOr(before.day_sentiment, dk, 0), SentimentOf(l))

\* C18: a line of valid JSON whose account is null loses the user
\* aggregation only: process_line raises nothing, the record is kept, its
\* hour and day contributions and its sentiment value are recorded.
C18_NullAccountLosesOnlyUser ==
    (call.made /\ NullAccountRecord(call.line) /\ CreatedParses(call.line.created_at))
    => /\ call.ret = TRUE
       /\ HoursFolded(call.before, self, call.line)
       /\ self.sentiment_values =
             Append(call.before.sentiment_values, SentimentOf(call.line))

Min(a, b) == IF a < b THEN a ELSE b

ItemsIn(list) == {list[i] : i \in 1 .. Len(list)}

\* `list` is the k best items of `map` by `key`: k entries or all of them,
\* each an item of the map, no key twice, in the order of the scores, and no
\* item left out that beats one that is in
RankedRight(list, map, key, desc, k) ==
    /\ Len(list) = Min(k, Len(map))
    /\ ItemsIn(list) \subseteq ItemsIn(map)
    /\ \A i, j \in 1 .. Len(list) :
          i < j => /\ list[i][1] # list[j][1]
                   /\ IF desc THEN KeyOf(list[i], key) >= KeyOf(list[j], key)
                              ELSE KeyOf(list[i], key) <= KeyOf(list[j], key)
    /\ \A x \in ItemsIn(map) \ ItemsIn(list) : \A i \in 1 .. Len(list) :
          IF desc THEN KeyOf(x, key) <= KeyOf(list[i], key)
                  ELSE KeyOf(x, key) >= KeyOf(list[i], key)

\* every list of the results is the k best of its map
AllRankedRight(res, an, k) ==
    /\ RankedRight(res.happiest_hours, an.hour_sentiment, ItemValue, TRUE, k)
    /\ RankedRight(res.saddest_hours, an.hour_sentiment, ItemValue, FALSE, k)
    /\ RankedRight(res.happiest_days, an.day_sentiment, ItemValue, TRUE, k)
    /\ RankedRight(res.saddest_days, an.day_sentiment, ItemValue, FALSE, k)
    /\ RankedRight(res.happiest_users, an.user_sentiment, UserScore, TRUE, k)
    /\ RankedRight(res.saddest_users, an.user_sentiment, UserScore, FALSE, k)
    /\ RankedRight(res.most_active_users, an.user_sentiment, UserCount, TRUE, k)
    /\ RankedRight(res.top_languages, an.language_counts, ItemValue, TRUE, k)
    /\ RankedRight(res.busiest_hours, an.hourly_post_counts, ItemValue, TRUE, k)

FromTo(a, b) == [k \in 1 .. (IF b > a THEN b - a ELSE 0) |-> a + k - 1]

\* how often line j has been handed to an analyzer, over all ranks
TimesHanded(j) ==
    Cardinality({rk \in Ranks \X (1 .. MaxReadN + 1) :
                    /\ rk[2] <= Len(reader[rk[1]].handed)
                    /\ reader[rk[1]].handed[rk[2]] = j})

AllRead == \A r \in Ranks : reader[r].at = "read"

\* C20: for N lines, P ranks and any chunk_size >= 1, a rank hands to its
\* analyzer the lines of its own range [start, end) and no other, in
\* ascending order, no line twice; when every rank has read, every line of
\* [0, N) has been handed exactly once, by the rank whose range holds it.
\* The chunked read of src/src/main.py yields the same lines.
C20_EveryLineHandedOnceByItsOwner ==
    /\ \A r \in Ranks :
          LET h == reader[r].handed
          IN /\ h \o reader[r].current_chunk
                  = FromTo(start_line[r],
                           start_line[r] + Len(h) + Len(reader[r].current_chunk))
             /\ start_line[r] + Len(h) + Len(reader[r].current_chunk) <= end_line[r]
             /\ Len(reader[r].current_chunk) < sub_chunk
             /\ reader[r].at = "read" => h = FromTo(start_line[r], end_line[r])
             /\ main_read(n_lines[r], start_line[r], end_line[r], sub_chunk)
                  = FromTo(start_line[r], end_line[r])
    /\ \A j \in 0 .. (n_lines[0] - 1) :
          /\ TimesHanded(j) <= 1
          /\ AllRead => TimesHanded(j) = 1

\* several ranks have read a file that does not divide evenly, in chunks of
\* two lines or more, one rank with a full chunk and a rest
C20_Witness ==
    /\ AllRead
    /\ comm_size > 1 /\ sub_chunk > 1
    /\ n_lines[0] % comm_size # 0
    /\ start_line[comm_size - 1] > 0
    /\ \E r \in Ranks :
          /\ Len(reader[r].handed) > sub_chunk
          /\ Len(reader[r].handed) % sub_chunk # 0

\* C21: with chunk_size >= 1, current_chunk never holds more than chunk_size
\* lines at any point of the read loop, and when the read is over (before
\* merge_results is called) it is empty: every line taken from the range
\* has been passed to analyze_chunk.
C21_BufferBoundedAndFlushed ==
    \A r \in Ranks :
        /\ Len(reader[r].current_chunk) <= sub_chunk
        /\ reader[r].peak <= sub_chunk
        /\ reader[r].at = "read" =>
              /\ reader[r].current_chunk = <<>>
              /\ Len(reader[r].handed) = reader[r].i

\* a rank has read a range of more than one chunk: the buffer has been
\* full, has been flushed in the loop, and a rest was flushed after it
C21_Witness ==
    \E r \in Ranks :
        /\ reader[r].at = "read"
        /\ sub_chunk > 1
        /\ reader[r].peak = sub_chunk
        /\ reader[r].flushed > 1
        /\ Len(reader[r].handed) % sub_chunk # 0

\* ------------------------------------------------- claims on merge_list
\* `list` is the n best of the items of x, y and z together
TopOfUnion(list, x, y, z, n) == RankedRight(list, x \o y \o z, ItemValue, TRUE, n)

RECURSIVE Succeeded(_, _)
Succeeded(an, f) ==
    IF f = <<>> THEN <<>>
    ELSE LET r == process_line(an, Head(f))
         IN (IF r.ret THEN <<Head(f)>> ELSE <<>>) \o Succeeded(r.an, Tail(f))

\* those of them that carry the user id
RECURSIVE RecordsOf(_, _)
RecordsOf(f, id) ==
    IF f = <<>> THEN <<>>
    ELSE (IF HasUser(Head(f)) /\ Head(f).account.id = id THEN <<Head(f)>> ELSE <<>>)
         \o RecordsOf(Tail(f), id)

UserRecords(f, id) == RecordsOf(Succeeded(NewAnalyzer, f), id)

UserIds(f) ==
    {Succeeded(NewAnalyzer, f)[i].account.id :
        i \in {j \in DOMAIN Succeeded(NewAnalyzer, f) : HasUser(Succeeded(NewAnalyzer, f)[j])}}

\* the numbers of q added one after the other
RECURSIVE SumOf(_)
SumOf(q) ==
    IF q = <<>> THEN 0
    ELSE IF Len(q) = 1 THEN q[1]
    ELSE FAdd(SumOf(SubSeq(q, 1, Len(q) - 1)), q[Len(q)])

SentimentsOf(q) == [i \in DOMAIN q |-> SentimentOf(q[i])]

\* the lines of the range of rank r, once it has mapped
RangeOf(r) ==
    IF start_line[r] >= Len(file) THEN <<>>
    ELSE SubSeq(file, start_line[r] + 1, Min(end_line[r], Len(file)))

\* rank r holds what process_line left, nothing merged into it
WorkerState(r) == pc[r] \in {"merge", "done"} /\ ~(r = 0 /\ pc[0] = "done")

\* the sums of the user in the ranges that hold a record of the user, rank
\* after rank
RECURSIVE RankSums(_, _)
RankSums(r, id) ==
    IF r >= comm_size THEN <<>>
    ELSE (IF UserRecords(RangeOf(r), id) = <<>> THEN <<>>
          ELSE <<SumOf(SentimentsOf(UserRecords(RangeOf(r), id)))>>)
         \o RankSums(r + 1, id)

\* one accumulator per user id of the succeeded records of f, with their
\* number as post_count
OnePerUser(us, f) ==
    /\ Keys(us) = UserIds(f)
    /\ \A i, j \in DOMAIN us : us[i][1] = us[j][1] => i = j
    /\ \A i \in DOMAIN us :
          /\ us[i][2][3] = Len(UserRecords(f, us[i][1]))
          /\ us[i][2][3] >= 1

\* C23: after the process_line calls of a worker on its range, and after
\* merge_results on the root, user_sentiment holds exactly one accumulator
\* per distinct non-empty user_id of a record process_line returned True
\* on; its post_count is the number of those records (at least 1) and its
\* sentiment_sum is the sum of their sentiments: added in stream order on
\* a worker, the sum of the ranks' sums on the root, the exact sum for
\* integer-valued sentiments.
C23_OneAccumulatorPerUser ==
    /\ \A r \in Ranks : WorkerState(r) =>
          LET us == analyzer[r].user_sentiment
          IN /\ OnePerUser(us, RangeOf(r))
             /\ \A i \in DOMAIN us :
                   us[i][2][2] = SumOf(SentimentsOf(UserRecords(RangeOf(r), us[i][1])))
    /\ results.made =>
          LET us == analyzer[0].user_sentiment
          IN /\ OnePerUser(us, file)
             /\ \A i \in DOMAIN us :
                   /\ us[i][2][2] = SumOf(RankSums(0, us[i][1]))
                   /\ IntegerValued(file) =>
                         us[i][2][2] = SumOf(SentimentsOf(UserRecords(file, us[i][1])))

\* the root has merged three ranks, two of which hold the same user; the
\* stream also holds a record of that user that was dropped
C23_Witness ==
    /\ results.made
    /\ comm_size = 3
    /\ IntegerValued(file)
    /\ SharedByRanks("user_sentiment")
    /\ \E i \in DOMAIN file :
          /\ HasUser(file[i])
          /\ ~process_line(NewAnalyzer, file[i]).ret

\* C24: whenever process_line returns False, on any line and for any
\* reason, the call has modified none of the accumulators; a call that has
\* modified an accumulator returns True.
C24_FalseLeavesAccumulatorsAlone ==
    call.made => /\ (call.ret = FALSE => self = call.before)
                 /\ (self # call.before => call.ret = TRUE)

\* the username of the last record of q
LastName(q) == q[Len(q)].account.username

\* the ranks whose range holds a succeeded record of the user
RanksOf(id) == {r \in Ranks : UserRecords(RangeOf(r), id) # <<>>}

\* C25: once the root has merged, the username in the accumulator of
\* every user is the username of the last record of that user, in stream
\* order, that process_line returned True on, and it is the username a
\* run with P = 1 stores; so it is for a user whose records lie in the
\* ranges of several ranks.
C25_MergedUsernameIsLastInStream ==
    results.made =>
        LET us == analyzer[0].user_sentiment
            one == SinglePass(file).user_sentiment
        IN \A i \in DOMAIN us :
              /\ us[i][2][1] = LastName(UserRecords(file, us[i][1]))
              /\ Has(one, us[i][1])
              /\ us[i][2][1] = Get(one, us[i][1])[1]

\* the root has merged a user held by two ranks under two names, the last
\* record of the user in the stream one that was dropped
C25_Witness ==
    /\ results.made
    /\ \E i \in DOMAIN analyzer[0].user_sentiment :
          LET id == analyzer[0].user_sentiment[i][1]
          IN /\ Cardinality(RanksOf(id)) >= 2
             /\ \E r1, r2 \in RanksOf(id) :
                   LastName(UserRecords(RangeOf(r1), id))
                     # LastName(UserRecords(RangeOf(r2), id))
             /\ \E j \in DOMAIN file :
                   /\ HasUser(file[j]) /\ file[j].account.id = id
                   /\ ~process_line(NewAnalyzer, file[j]).ret
                   /\ \A k \in DOMAIN file :
                         (k > j) => ~(HasUser(file[k]) /\ file[k].account.id = id)

\* the records of f with a date that parses that reached the hour block:
\* those process_line returned True on and those it changed the analyzer on
RECURSIVE HourRecords(_, _)
HourRecords(an, f) ==
    IF f = <<>> THEN <<>>
    ELSE LET r == process_line(an, Head(f))
         IN (IF r.an.hourly_post_counts # an.hourly_post_counts
                \/ r.an.hour_sentiment # an.hour_sentiment
             THEN <<Head(f)>> ELSE <<>>)
            \o HourRecords(r.an, Tail(f))

NoKeyTwice(d) == \A i, j \in DOMAIN d : d[i][1] = d[j][1] => i = j

\* hour_sentiment and hourly_post_counts go together in `an`
HoursCounted(an) ==
    /\ Keys(an.hour_sentiment) = Keys(an.hourly_post_counts)
    /\ NoKeyTwice(an.hour_sentiment) /\ NoKeyTwice(an.hourly_post_counts)
    /\ \A i \in DOMAIN an.hourly_post_counts : an.hourly_post_counts[i][2] >= 1
    /\ Keys(get_hourly_sentiment_avg(an)) = Keys(an.hour_sentiment)
    /\ Len(get_hourly_sentiment_avg(an)) = Len(an.hour_sentiment)

\* C26: in every state of an analyzer, after the process_line calls of a
\* rank on its range and after merge_results on the root, hour_sentiment
\* and hourly_post_counts have the same keys and every hourly post count
\* is at least 1 (it is the number of records added to the hour), so
\* get_hourly_sentiment_avg has an average for every hour key and divides
\* by no zero.
C26_HourSumsAndCountsGoTogether ==
    /\ \A r \in Ranks : WorkerState(r) =>
          /\ HoursCounted(analyzer[r])
          /\ \A i \in DOMAIN analyzer[r].hourly_post_counts :
                analyzer[r].hourly_post_counts[i][2]
                  = Cardinality({j \in DOMAIN HourRecords(NewAnalyzer, RangeOf(r)) :
                        HourKey(HourRecords(NewAnalyzer, RangeOf(r))[j].created_at)
                          = analyzer[r].hourly_post_counts[i][1]})
    /\ results.made =>
          /\ HoursCounted(analyzer[0])
          /\ \A i \in DOMAIN analyzer[0].hourly_post_counts :
                analyzer[0].hourly_post_counts[i][2]
                  = Cardinality({j \in DOMAIN HourRecords(NewAnalyzer, file) :
                        HourKey(HourRecords(NewAnalyzer, file)[j].created_at)
                          = analyzer[0].hourly_post_counts[i][1]})

\* the root has merged ranks that hold the same hour, one of its records
\* dropped after the hour block, another record without a date that parses
C26_Witness ==
    /\ results.made
    /\ comm_size >= 2
    /\ SharedByRanks("hour_sentiment")
    /\ \E i \in DOMAIN file :
          /\ ~process_line(NewAnalyzer, file[i]).ret
          /\ process_line(NewAnalyzer, file[i]).an # NewAnalyzer
    /\ \E i \in DOMAIN file :
          /\ process_line(NewAnalyzer, file[i]).ret
          /\ file[i].created_at.tag = "text"

\* the day an hour key starts with: "%Y-%m-%d" of "%Y-%m-%d %H"
DayPrefix(hk) == hk[1]

\* the sum, in exact arithmetic, of the hour sums of the day
RECURSIVE HourSumsOf(_, _)
HourSumsOf(hours, day) ==
    IF hours = <<>> THEN 0
    ELSE (IF DayPrefix(Head(hours)[1]) = day THEN Head(hours)[2] ELSE 0)
         + HourSumsOf(Tail(hours), day)

DaysCoverHours(an) ==
    /\ Keys(an.day_sentiment) = {DayPrefix(k) : k \in Keys(an.hour_sentiment)}
    /\ NoKeyTwice(an.day_sentiment)

DaysSumHours(an) ==
    \A i \in DOMAIN an.day_sentiment :
        an.day_sentiment[i][2] = HourSumsOf(an.hour_sentiment, an.day_sentiment[i][1])

\* C27: in every state of an analyzer, after the process_line calls of a
\* rank on its range and after merge_results on the root, the day keys
\* are exactly the day prefixes of the hour keys, and for integer-valued
\* sentiments every day's sum equals the sum of the hour sums whose key
\* starts with the day key.
C27_DaySumsAreSumsOfHourSums ==
    /\ \A r \in Ranks : WorkerState(r) =>
          /\ DaysCoverHours(analyzer[r])
          /\ IntegerValued(RangeOf(r)) => DaysSumHours(analyzer[r])
    /\ results.made =>
          /\ DaysCoverHours(analyzer[0])
          /\ IntegerValued(file) => DaysSumHours(analyzer[0])

\* the root has merged ranks that hold the same day, the day with two
\* hours and sums other than 0, for an integer-valued stream
C27_Witness ==
    /\ results.made
    /\ comm_size = 3
    /\ IntegerValued(file)
    /\ SharedByRanks("day_sentiment")
    /\ \E i, j \in DOMAIN analyzer[0].hour_sentiment :
          /\ i # j
          /\ DayPrefix(analyzer[0].hour_sentiment[i][1])
               = DayPrefix(analyzer[0].hour_sentiment[j][1])
          /\ analyzer[0].hour_sentiment[i][2] # 0
          /\ analyzer[0].hour_sentiment[j][2] # 0

============================================================================
